---- MODULE Spec2Model ----
(***************************************************************************)
(* ThesisCheck backend: the Segmenter (prompts/thesis_review.py), the      *)
(* Stream Extractor and the Review Orchestrator (services/llm_service.py). *)
(*                                                                         *)
(* Text is a sequence of characters, one string per character.  A CJK     *)
(* character is written by its code point, as the source's patterns write  *)
(* it ("u7eea" is the character \u7eea); the control characters \x05,      *)
(* \x13, \x14, \x15 are the atoms X05, X13, X14, X15.                      *)
(* Positions are 1-based: position p here is list index p-1 in the source. *)
(* A paragraph dict is the record [index, text]; Section.paragraphs holds  *)
(* references to the dicts of the input list, modelled as their positions. *)
(***************************************************************************)
EXTENDS Integers, Sequences, FiniteSets, TLC

VARIABLES
    paragraphs,     \* detect_sections: the input list of {index, text} dicts
    seg_pc,         \* detect_sections: "scan", "build", "merge", "dedup", "done", or "idle"
    pos,            \* detect_sections: loop variable of the boundary scan (next position)
    in_toc,         \* detect_sections: the 'inside TOC region' flag
    boundaries,     \* detect_sections: list of <<list_pos, name, type>>
    sections,       \* detect_sections: the Section list being built / returned
    merged_in,      \* the list handed to _deduplicate_sections (the merge pass's output)
    buffer,                 \* _stream_single_batch: the accumulated text
    in_comments_array,      \* _stream_single_batch
    brace_depth,            \* _stream_single_batch
    current_object_start,   \* _stream_single_batch: 0-based offset, -1 when no object is open
    emitted_count,          \* _stream_single_batch
    ex_pc,          \* _stream_single_batch: "idle", "requesting", "streaming", "ended", "raised"
    yielded,        \* _stream_single_batch: the (event_type, data) tuples yielded so far
    stream_text,    \* the provider: the text of the response, cut into fragments as it is sent
    delivered,      \* the provider: characters of stream_text sent so far
    nchunks,        \* the provider: chunks sent so far (in either streaming generator)
    pc,             \* review_paragraphs_stream: "idle", "start", "loop", "section", "finished", "cancelled";
                    \* generate_overall_comment_stream: "overall_requesting", "overall_streaming",
                    \* "overall_failed", "overall_finished", "overall_cancelled"
    all_sections,   \* review_paragraphs_stream: detect_sections' result
    eligible,       \* review_paragraphs_stream: its list `sections` (cover and toc filtered out)
    batch_idx,      \* review_paragraphs_stream: the loop index, from 1
    events,         \* the events the running generator has yielded so far, in order
    calls,          \* the provider: the Sections requests were made for, in order
    failed          \* the batch indices whose provider call or stream raised

segvars == <<paragraphs, seg_pc, pos, in_toc, boundaries, sections, merged_in>>

exvars == <<buffer, in_comments_array, brace_depth, current_object_start, emitted_count,
            ex_pc, yielded, stream_text, delivered, nchunks>>

orchvars == <<pc, all_sections, eligible, batch_idx, events, calls, failed>>

-----------------------------------------------------------------------------
(* Characters *)

X05 == "\\x05"
X13 == "\\x13"
X14 == "\\x14"
X15 == "\\x15"

\* [\x00-\x1f] restricted to the characters of the model's alphabet
CtrlChars == {"\t", X05, X13, X14, X15}

\* \s and str.strip() restricted to the characters of the model's alphabet
SpaceChars == {" ", "\t"}

DigitChars == {"0", "1", "2", "3", "4", "5", "6", "7", "8", "9"}

\* [\u4e00\u4e8c\u4e09\u56db\u4e94\u516d\u4e03\u516b\u4e5d\u5341]: the numerals one to ten
CnNumChars == {"u4e00", "u4e8c", "u4e09", "u56db", "u4e94", "u516d", "u4e03", "u516b", "u4e5d", "u5341"}

Min(a, b) == IF a <= b THEN a ELSE b

\* s[a..b] as a sequence (empty when a > b)
Slice(s, a, b) == IF a > b THEN <<>> ELSE [k \in 1..(b - a + 1) |-> s[a + k - 1]]

AllIn(s, a, b, S) == \A k \in a..b : s[k] \in S

\* str.strip()
Strip(s) ==
    LET keep == {k \in 1..Len(s) : s[k] \notin SpaceChars}
    IN  IF keep = {} THEN <<>>
        ELSE Slice(s, CHOOSE k \in keep : \A j \in keep : k <= j,
                      CHOOSE k \in keep : \A j \in keep : k >= j)

\* re.sub(r"[\x00-\x1f]", "", s)
RemoveCtrl(s) == SelectSeq(s, LAMBDA c : c \notin CtrlChars)

\* pat in s (substring test)
Contains(s, pat) ==
    \E i \in 1..(Len(s) - Len(pat) + 1) : Slice(s, i, i + Len(pat) - 1) = pat

\* s[from..] matches \s*\d+\s*$
WsDigitsWsToEnd(s, from) ==
    \E a \in from..Len(s) : \E b \in a..Len(s) :
        /\ AllIn(s, from, a - 1, SpaceChars)
        /\ AllIn(s, a, b, DigitChars)
        /\ AllIn(s, b + 1, Len(s), SpaceChars)

\* str(n) for n >= 0
RECURSIVE IntToStr(_)
IntToStr(n) ==
    LET d == <<"0", "1", "2", "3", "4", "5", "6", "7", "8", "9">>[(n % 10) + 1]
    IN  IF n < 10 THEN <<d>> ELSE Append(IntToStr(n \div 10), d)

-----------------------------------------------------------------------------
(* prompts/thesis_review.py: the heading rules *)

PAGEREF == <<"P", "A", "G", "E", "R", "E", "F">>

HYPERLINK == <<"H", "Y", "P", "E", "R", "L", "I", "N", "K">>

\* s matches ^a\s*b$
LitWsLit(s, a, b) ==
    /\ Len(s) >= 2
    /\ s[1] = a
    /\ s[Len(s)] = b
    /\ AllIn(s, 2, Len(s) - 1, SpaceChars)

\* s matches ^a\s*b (a prefix match); the set of positions of b
LitWsLitPrefixEnds(s, a, b) ==
    {k \in 2..Len(s) : s[1] = a /\ s[k] = b /\ AllIn(s, 2, k - 1, SpaceChars)}

\* Number of entries of _SECTION_PATTERNS
NumPatterns == 15

\* re.match(_SECTION_PATTERNS[r][0], s), for s without line breaks
PatternMatches(r, s) ==
    CASE r = 1  -> LitWsLit(s, "u6458", "u8981")
      [] r = 2  -> \/ s = <<"A", "B", "S", "T", "R", "A", "C", "T">>
                   \/ s = <<"A", "b", "s", "t", "r", "a", "c", "t">>
      [] r = 3  -> /\ Len(s) >= 3
                   /\ s[1] = "u7b2c"
                   /\ \E k \in 3..Len(s) :
                        /\ AllIn(s, 2, k - 1, CnNumChars \cup DigitChars)
                        /\ s[k] = "u7ae0"
                        /\ (k = Len(s) \/ s[k + 1] \in SpaceChars)
      [] r = 4  -> \E k \in 2..Len(s) :
                        /\ AllIn(s, 1, k - 1, CnNumChars)
                        /\ s[k] = "u3001"
      [] r = 5  -> \E k \in 1..Len(s) : \E m \in (k + 1)..Len(s) :
                        /\ AllIn(s, 1, k, DigitChars)
                        /\ AllIn(s, k + 1, m, SpaceChars)
                        /\ m + 1 <= Len(s)
                        /\ s[m + 1] \notin SpaceChars
      [] r = 6  -> LitWsLit(s, "u7eea", "u8bba")
      [] r = 7  -> LitWsLit(s, "u5f15", "u8a00")
      [] r = 8  -> LitWsLit(s, "u5bfc", "u8bba")
      [] r = 9  -> LitWsLit(s, "u7ed3", "u8bba")
      [] r = 10 -> LitWsLit(s, "u603b", "u7ed3")
      [] r = 11 -> \E k \in LitWsLitPrefixEnds(s, "u7eea", "u8bba") : Len(s) - k <= 20
      [] r = 12 -> s = <<"u53c2", "u8003", "u6587", "u732e">>
      [] r = 13 -> LitWsLit(s, "u81f4", "u8c22")
      [] r = 14 -> LitWsLitPrefixEnds(s, "u9644", "u5f55") # {}
      [] r = 15 -> LitWsLit(s, "u76ee", "u5f55")
      [] OTHER  -> FALSE

\* _SECTION_PATTERNS[r][1]; the list has 15 entries
PatternType(r) ==
    CASE r \in {1, 2}  -> "abstract"
      [] r \in 3..11   -> "chapter"
      [] r = 12        -> "references"
      [] r \in {13, 14} -> "appendix"
      [] OTHER         -> "toc"

_is_toc_entry(text) ==
    \/ \E i \in 1..Len(text) : text[i] = "\t" /\ WsDigitsWsToEnd(text, i + 1)
    \/ \E i \in 1..Len(text) : \E j \in (i + 2)..Len(text) :
            /\ AllIn(text, i, j, {".", "u3002"})
            /\ WsDigitsWsToEnd(text, j + 1)
    \/ Contains(text, PAGEREF)
    \/ Contains(text, HYPERLINK)
    \/ \E i \in 1..Len(text) : text[i] \in {X13, X14, X15}
    \/ \E i \in 1..Len(text) : text[i] = X05 /\ WsDigitsWsToEnd(text, i + 1)

\* Longest text _is_heading_paragraph accepts
HeadingMaxLen == 60

\* A faulty _is_heading_paragraph: the checks are left out (C12 rejects it)
IsHeadingAlways(text) == TRUE

_is_heading_paragraph(text) ==
    LET clean == RemoveCtrl(text)
    IN  IF \E i \in 1..Len(clean) : clean[i] = "u3002" THEN FALSE
        ELSE Len(clean) <= HeadingMaxLen

_normalize_section_name(name) ==
    LET tabs == {i \in 1..Len(name) : name[i] = "\t"}
        n1 == IF tabs = {} THEN name
              ELSE Slice(name, 1, (CHOOSE i \in tabs : \A j \in tabs : i <= j) - 1)
        tails == {i \in 1..Len(n1) : WsDigitsWsToEnd(n1, i)}
        n2 == IF tails = {} THEN n1
              ELSE Slice(n1, 1, (CHOOSE i \in tails : \A j \in tails : i <= j) - 1)
        n3 == RemoveCtrl(n2)
        n4 == SelectSeq(n3, LAMBDA c : c \notin SpaceChars)
    IN  Strip(n4)

-----------------------------------------------------------------------------
(* prompts/thesis_review.py: detect_sections and its passes *)

Section(name, section_type, start_para_idx, end_para_idx, paras) ==
    [name |-> name, section_type |-> section_type,
     start_para_idx |-> start_para_idx, end_para_idx |-> end_para_idx,
     paragraphs |-> paras]

\* The positions a..b, in order: the slice paragraphs[a-1:b] of references
Positions(a, b) == IF a > b THEN <<>> ELSE [k \in 1..(b - a + 1) |-> a + k - 1]

\* The first rule of _SECTION_PATTERNS that matches clean_text, 0 when none does
FirstMatch(clean_text) ==
    LET hits == {r \in 1..NumPatterns : PatternMatches(r, clean_text)}
    IN  IF hits = {} THEN 0 ELSE CHOOSE r \in hits : \A q \in hits : r <= q

RECURSIVE RulesTriedFrom(_, _)
\* The rules the loop tests from rule r on: a rule that matches ends the loop,
\* whether its match is recorded or not
RulesTriedFrom(r, clean_text) ==
    IF r > NumPatterns THEN {}
    ELSE IF PatternMatches(r, clean_text) THEN {r}
         ELSE {r} \cup RulesTriedFrom(r + 1, clean_text)

\* The rules the loop tests on one paragraph
RulesTried(clean_text) == RulesTriedFrom(1, clean_text)

RECURSIVE MatchRulesEveryFrom(_, _, _, _)
MatchRulesEveryFrom(bnds, p, clean_text, r) ==
    IF r > NumPatterns THEN bnds
    ELSE IF /\ PatternMatches(r, clean_text)
            /\ PatternType(r) = "chapter" => _is_heading_paragraph(clean_text)
         THEN MatchRulesEveryFrom(Append(bnds, <<p, clean_text, PatternType(r)>>),
                                  p, clean_text, r + 1)
         ELSE MatchRulesEveryFrom(bnds, p, clean_text, r + 1)

\* A faulty rule loop: it never ends early and records a boundary for every
\* rule whose match is accepted (C30 rejects it)
MatchRulesEvery(bnds, p, clean_text) == MatchRulesEveryFrom(bnds, p, clean_text, 1)

\* The rule loop of detect_sections for one paragraph: the boundaries list after it
MatchRules(bnds, p, clean_text) ==
    LET r == FirstMatch(clean_text)
    IN  IF r = 0 THEN bnds
        ELSE IF PatternType(r) = "chapter" /\ ~_is_heading_paragraph(clean_text)
             THEN bnds
             ELSE Append(bnds, <<p, clean_text, PatternType(r)>>)

\* A faulty iteration: the paragraph that ends a TOC region only turns the
\* flag off and is not tried against the heading rules (C28 rejects it)
ScanParagraphRegionEndSkipped(intoc, bnds, ps, p) ==
    LET raw_text   == Strip(ps[p].text)
        clean_text == Strip(RemoveCtrl(raw_text))
    IN  IF raw_text = <<>> \/ clean_text = <<>>
        THEN [in_toc |-> intoc, boundaries |-> bnds]
        ELSE IF LitWsLit(clean_text, "u76ee", "u5f55")
        THEN [in_toc |-> TRUE, boundaries |-> Append(bnds, <<p, clean_text, "toc">>)]
        ELSE IF _is_toc_entry(raw_text)
        THEN [in_toc |-> intoc, boundaries |-> bnds]
        ELSE IF intoc
        THEN [in_toc |-> FALSE, boundaries |-> bnds]
        ELSE [in_toc |-> FALSE, boundaries |-> MatchRules(bnds, p, clean_text)]

\* A faulty iteration: TOC entries are passed over only inside a TOC region
\* (C29 rejects it)
ScanParagraphNoFilter(intoc, bnds, ps, p) ==
    LET raw_text   == Strip(ps[p].text)
        clean_text == Strip(RemoveCtrl(raw_text))
    IN  IF raw_text = <<>> \/ clean_text = <<>>
        THEN [in_toc |-> intoc, boundaries |-> bnds]
        ELSE IF LitWsLit(clean_text, "u76ee", "u5f55")
        THEN [in_toc |-> TRUE, boundaries |-> Append(bnds, <<p, clean_text, "toc">>)]
        ELSE IF intoc /\ _is_toc_entry(raw_text)
        THEN [in_toc |-> intoc, boundaries |-> bnds]
        ELSE [in_toc |-> FALSE, boundaries |-> MatchRules(bnds, p, clean_text)]

\* One iteration of the boundary scan, for the paragraph at position p
ScanParagraph(intoc, bnds, ps, p) ==
    LET raw_text   == Strip(ps[p].text)
        clean_text == Strip(RemoveCtrl(raw_text))
    IN  IF raw_text = <<>> \/ clean_text = <<>>
        THEN [in_toc |-> intoc, boundaries |-> bnds]
        ELSE IF LitWsLit(clean_text, "u76ee", "u5f55")
        THEN [in_toc |-> TRUE, boundaries |-> Append(bnds, <<p, clean_text, "toc">>)]
        ELSE IF _is_toc_entry(raw_text)
        THEN [in_toc |-> intoc, boundaries |-> bnds]
        ELSE [in_toc |-> FALSE, boundaries |-> MatchRules(bnds, p, clean_text)]

\* Default of max_paras_per_batch
MaxParasPerBatch == 30

\* "第{batch_num}部分"
ChunkName(batch_num) == <<"u7b2c">> \o IntToStr(batch_num) \o <<"u90e8", "u5206">>

\* A faulty _fallback_chunking: the number of chunks rounded down, so that a
\* short last chunk is lost (C10 rejects it)
FallbackChunkingRoundedDown(ps) ==
    [c \in 1..(Len(ps) \div MaxParasPerBatch) |->
        Section(ChunkName(c), "chapter",
                ps[(c - 1) * MaxParasPerBatch + 1].index,
                ps[c * MaxParasPerBatch].index,
                Positions((c - 1) * MaxParasPerBatch + 1, c * MaxParasPerBatch))]

_fallback_chunking(ps) ==
    LET n == (Len(ps) + MaxParasPerBatch - 1) \div MaxParasPerBatch
    IN  [c \in 1..n |->
            LET first == (c - 1) * MaxParasPerBatch + 1
                last  == Min(c * MaxParasPerBatch, Len(ps))
            IN  Section(ChunkName(c), "chapter",
                        ps[first].index, ps[last].index, Positions(first, last))]

\* "封面与题目"
CoverName == <<"u5c01", "u9762", "u4e0e", "u9898", "u76ee">>

\* A faulty BuildSections: no cover Section for the paragraphs before the
\* first boundary (C6 rejects it)
BuildSectionsNoCover(ps, bnds) ==
    [i \in 1..Len(bnds) |->
        LET start == bnds[i][1]
            stop  == IF i + 1 <= Len(bnds) THEN bnds[i + 1][1] - 1 ELSE Len(ps)
        IN  Section(bnds[i][2], bnds[i][3],
                    ps[start].index, ps[stop].index, Positions(start, stop))]

\* A faulty BuildSections: a Section runs up to and including the next
\* boundary's paragraph (C7 rejects it)
BuildSectionsOverlap(ps, bnds) ==
    [i \in 1..Len(bnds) |->
        LET start == bnds[i][1]
            stop  == IF i + 1 <= Len(bnds) THEN bnds[i + 1][1] ELSE Len(ps)
        IN  Section(bnds[i][2], bnds[i][3],
                    ps[start].index, ps[stop].index, Positions(start, stop))]

\* A faulty BuildSections: start_para_idx and end_para_idx exchanged (C8
\* rejects it)
BuildSectionsSwapped(ps, bnds) ==
    [i \in 1..Len(bnds) |->
        LET start == bnds[i][1]
            stop  == IF i + 1 <= Len(bnds) THEN bnds[i + 1][1] - 1 ELSE Len(ps)
        IN  Section(bnds[i][2], bnds[i][3],
                    ps[stop].index, ps[start].index, Positions(start, stop))]

\* Lines 264-300: the cover Section, then one Section per boundary
BuildSections(ps, bnds) ==
    LET first_boundary_pos == bnds[1][1]
        cover == IF first_boundary_pos > 1
                 THEN << Section(CoverName, "cover", ps[1].index,
                                 ps[first_boundary_pos - 1].index,
                                 Positions(1, first_boundary_pos - 1)) >>
                 ELSE <<>>
        body == [i \in 1..Len(bnds) |->
                    LET start == bnds[i][1]
                        stop  == IF i + 1 <= Len(bnds) THEN bnds[i + 1][1] - 1 ELSE Len(ps)
                    IN  Section(bnds[i][2], bnds[i][3],
                                ps[start].index, ps[stop].index, Positions(start, stop))]
    IN  cover \o SelectSeq(body, LAMBDA sec : sec.paragraphs # <<>>)

\* Default of min_paragraphs
MinParagraphs == 3

\* " / "
NameSeparator == <<" ", "/", " ">>

\* A faulty test of the merge loop: the kinds are not compared (C25 rejects it)
ShouldMergeAnyKind(merged, sec) ==
    /\ merged # <<>>
    /\ Len(sec.paragraphs) < MinParagraphs

\* The test of the merge loop: sec is merged into the last Section of merged
ShouldMerge(merged, sec) ==
    /\ merged # <<>>
    /\ Len(sec.paragraphs) < MinParagraphs
    /\ sec.section_type = merged[Len(merged)].section_type

RECURSIVE MergeFrom(_, _, _)
MergeFrom(merged, secs, i) ==
    IF i > Len(secs) THEN merged
    ELSE LET sec == secs[i]
             last == merged[Len(merged)]
         IN  IF ShouldMerge(merged, sec)
             THEN MergeFrom([merged EXCEPT ![Len(merged)] =
                                Section(last.name \o NameSeparator \o sec.name,
                                        last.section_type,
                                        last.start_para_idx,
                                        sec.end_para_idx,
                                        last.paragraphs \o sec.paragraphs)],
                            secs, i + 1)
             ELSE MergeFrom(Append(merged, sec), secs, i + 1)

_merge_small_sections(secs) ==
    IF Len(secs) <= 1 THEN secs ELSE MergeFrom(<<>>, secs, 1)

\* A faulty BestIdx: min instead of max (C9 rejects it)
BestIdxSmallest(secs, indices) ==
    CHOOSE b \in indices :
        /\ \A j \in indices : Len(secs[j].paragraphs) >= Len(secs[b].paragraphs)
        /\ \A j \in indices :
              Len(secs[j].paragraphs) = Len(secs[b].paragraphs) => b <= j

\* A faulty BestIdx: the last of the largest (C26 rejects it)
BestIdxLast(secs, indices) ==
    CHOOSE b \in indices :
        /\ \A j \in indices : Len(secs[j].paragraphs) <= Len(secs[b].paragraphs)
        /\ \A j \in indices :
              Len(secs[j].paragraphs) = Len(secs[b].paragraphs) => b >= j

\* max(indices, key=lambda i: len(sections[i].paragraphs)): the first of the largest
BestIdx(secs, indices) ==
    CHOOSE b \in indices :
        /\ \A j \in indices : Len(secs[j].paragraphs) <= Len(secs[b].paragraphs)
        /\ \A j \in indices :
              Len(secs[j].paragraphs) = Len(secs[b].paragraphs) => b <= j

\* name_groups[norm]: the indices of the Sections whose name normalizes to norm
NameGroup(secs, norm) ==
    {i \in 1..Len(secs) : _normalize_section_name(secs[i].name) = norm}

RemoveIndices(secs) ==
    {idx \in 1..Len(secs) :
        LET norm == _normalize_section_name(secs[idx].name)
            indices == NameGroup(secs, norm)
        IN  /\ norm # <<>>
            /\ Cardinality(indices) > 1
            /\ idx # BestIdx(secs, indices)}

\* secs without the Sections at the indices of drop, order kept
RECURSIVE Without(_, _, _)
Without(secs, drop, i) ==
    IF i > Len(secs) THEN <<>>
    ELSE IF i \in drop THEN Without(secs, drop, i + 1)
    ELSE <<secs[i]>> \o Without(secs, drop, i + 1)

_deduplicate_sections(secs) ==
    IF Len(secs) <= 1 THEN secs ELSE Without(secs, RemoveIndices(secs), 1)

RECURSIVE ScanFrom(_, _, _, _)
ScanFrom(intoc, bnds, ps, p) ==
    IF p > Len(ps) THEN bnds
    ELSE LET st == ScanParagraph(intoc, bnds, ps, p)
         IN  ScanFrom(st.in_toc, st.boundaries, ps, p + 1)

detect_sections(ps) ==
    IF ps = <<>> THEN <<>>
    ELSE LET bnds == ScanFrom(FALSE, <<>>, ps, 1)
         IN  IF bnds = <<>> THEN _fallback_chunking(ps)
             ELSE _deduplicate_sections(_merge_small_sections(BuildSections(ps, bnds)))

-----------------------------------------------------------------------------
(* detect_sections as a state machine: one action per loop iteration and pass *)

SegStart(ps) ==
    /\ paragraphs = ps
    /\ seg_pc = "scan"
    /\ pos = 1
    /\ in_toc = FALSE
    /\ boundaries = <<>>
    /\ sections = <<>>
    /\ merged_in = <<>>

\* A faulty empty-input return: one Section without paragraphs instead of
\* no Section (C11 rejects it)
ReturnEmptyAsChunk ==
    /\ seg_pc = "scan"
    /\ paragraphs = <<>>
    /\ seg_pc' = "done"
    /\ sections' = <<Section(ChunkName(1), "chapter", 0, 0, <<>>)>>
    /\ UNCHANGED <<paragraphs, pos, in_toc, boundaries, merged_in, exvars, orchvars>>

\* Lines 206-207: if not paragraphs: return []
ReturnEmpty ==
    /\ seg_pc = "scan"
    /\ paragraphs = <<>>
    /\ seg_pc' = "done"
    /\ sections' = <<>>
    /\ UNCHANGED <<paragraphs, pos, in_toc, boundaries, merged_in, exvars, orchvars>>

\* Lines 215-258: one iteration of the boundary scan
ScanStep ==
    /\ seg_pc = "scan"
    /\ pos <= Len(paragraphs)
    /\ LET st == ScanParagraph(in_toc, boundaries, paragraphs, pos)
       IN  /\ in_toc' = st.in_toc
           /\ boundaries' = st.boundaries
    /\ pos' = pos + 1
    /\ UNCHANGED <<paragraphs, seg_pc, sections, merged_in, exvars, orchvars>>

\* Lines 261-262: no boundary, return the fixed-size chunks
Fallback ==
    /\ seg_pc = "scan"
    /\ paragraphs # <<>>
    /\ pos > Len(paragraphs)
    /\ boundaries = <<>>
    /\ sections' = _fallback_chunking(paragraphs)
    /\ seg_pc' = "done"
    /\ UNCHANGED <<paragraphs, pos, in_toc, boundaries, merged_in, exvars, orchvars>>

\* Lines 264-300
Build ==
    /\ seg_pc = "scan"
    /\ paragraphs # <<>>
    /\ pos > Len(paragraphs)
    /\ boundaries # <<>>
    /\ sections' = BuildSections(paragraphs, boundaries)
    /\ seg_pc' = "merge"
    /\ UNCHANGED <<paragraphs, pos, in_toc, boundaries, merged_in, exvars, orchvars>>

\* Line 303
Merge ==
    /\ seg_pc = "merge"
    /\ sections' = _merge_small_sections(sections)
    /\ seg_pc' = "dedup"
    /\ UNCHANGED <<paragraphs, pos, in_toc, boundaries, merged_in, exvars, orchvars>>

\* Lines 306-308
Dedup ==
    /\ seg_pc = "dedup"
    /\ merged_in' = sections
    /\ sections' = _deduplicate_sections(sections)
    /\ seg_pc' = "done"
    /\ UNCHANGED <<paragraphs, pos, in_toc, boundaries, exvars, orchvars>>

\* detect_sections is not running
SegIdle ==
    /\ seg_pc = "idle"
    /\ pos = 1
    /\ in_toc = FALSE
    /\ boundaries = <<>>
    /\ sections = <<>>
    /\ merged_in = <<>>

SegNext == ReturnEmpty \/ ScanStep \/ Fallback \/ Build \/ Merge \/ Dedup

-----------------------------------------------------------------------------
(* Inputs of detect_sections *)

\* Longest paragraph list of SpecSeg
MaxParas == 4

\* Paragraphs of SpecChunk whose text varies; the rest are body text
MaxHead == 2

\* Longest paragraph list of SpecChunk: two full chunks and a short one
MaxChunkParas == 61

TxtBody == <<"x">>

TxtBlank == <<" ">>

\* "目录", the TOC heading
TxtToc == <<"u76ee", "u5f55">>

\* "绪论<TAB>3", a TOC entry
TxtTocEntry == <<"u7eea", "u8bba", "\t", "3">>

\* "绪论"
TxtIntro == <<"u7eea", "u8bba">>

\* "绪 论"
TxtIntroSp == <<"u7eea", " ", "u8bba">>

\* "摘要"
TxtAbstract == <<"u6458", "u8981">>

SegTexts == {TxtBody, TxtBlank, TxtToc, TxtTocEntry, TxtIntro, TxtIntroSp}

ChunkTexts == {TxtBody, TxtBlank, TxtIntro}

\* n times the character c
Repeat(c, n) == [k \in 1..n |-> c]

\* "第一章", a chapter heading
TxtChapter == <<"u7b2c", "u4e00", "u7ae0">>

\* "第一章 xx...x", a chapter heading of exactly HeadingMaxLen characters
TxtChapterLongest == TxtChapter \o <<" ">> \o Repeat("x", HeadingMaxLen - 4)

\* "第一章 xx...x。", a sentence of HeadingMaxLen + 1 characters that begins
\* like a chapter heading and ends with a full stop
TxtLongSentence == TxtChapter \o <<" ">> \o Repeat("x", HeadingMaxLen - 4) \o <<"u3002">>

\* "1 xx...x", HeadingMaxLen + 1 characters, no full stop
TxtLongNoStop == <<"1", " ">> \o Repeat("x", HeadingMaxLen - 1)

\* "一、x。", short, with a full stop
TxtShortStop == <<"u4e00", "u3001", "x", "u3002">>

HeadingTexts ==
    {TxtBody, TxtChapter, TxtChapterLongest, TxtLongSentence, TxtLongNoStop, TxtShortStop}

\* Longest paragraph list of SpecHeading
MaxHeadingParas == 3

\* The caller's index of the first paragraph, and the step to the next one:
\* contiguous, with gaps, all equal, decreasing
IndexBase == 10

IndexSteps == {1, 2, 0, -1}

MakeParagraphs(texts, step) ==
    [i \in 1..Len(texts) |-> [index |-> IndexBase + step * (i - 1), text |-> texts[i]]]

SegInputs ==
    {MakeParagraphs(texts, step) :
        texts \in UNION {[1..n -> SegTexts] : n \in 0..MaxParas}, step \in IndexSteps}

HeadingInputs ==
    {MakeParagraphs(texts, 1) :
        texts \in UNION {[1..n -> HeadingTexts] : n \in 0..MaxHeadingParas}}

\* Longest paragraph list of SpecResidual
MaxResidualParas == 5

\* A chapter heading, a heading that can occur twice, and body text
ResidualTexts == {TxtChapter, TxtIntro, TxtBody}

ResidualInputs ==
    {MakeParagraphs(texts, 1) :
        texts \in UNION {[1..n -> ResidualTexts] : n \in 0..MaxResidualParas}}

\* "目录" followed by a Word field-start character
TxtTocField == <<"u76ee", "u5f55", X13>>

\* Longest paragraph list of SpecRules
MaxRuleParas == 4

\* Texts that meet more than one rule or test of the scan: a TOC heading with
\* a field character, a TOC entry, a heading two rules match, a sentence that
\* begins like a heading, and body text
RuleTexts == {TxtTocField, TxtTocEntry, TxtIntro, TxtShortStop, TxtBody}

RuleInputs ==
    {MakeParagraphs(texts, 1) :
        texts \in UNION {[1..n -> RuleTexts] : n \in 0..MaxRuleParas}}

ChunkInputs ==
    {MakeParagraphs([i \in 1..n |-> IF i <= Len(head) THEN head[i] ELSE TxtBody], step) :
        n \in 0..MaxChunkParas,
        head \in UNION {[1..h -> ChunkTexts] : h \in 0..MaxHead},
        step \in IndexSteps}

-----------------------------------------------------------------------------
(* json.loads, for the JSON texts of the model: objects, arrays, strings     *)
(* without escapes, non-negative integers.  A value is [t, v].               *)

JStr(v) == [t |-> "str", v |-> v]

JNum(v) == [t |-> "num", v |-> v]

JArr(v) == [t |-> "arr", v |-> v]

\* v: the members in text order, each <<key, value>>
JObj(v) == [t |-> "obj", v |-> v]

ParseFail == [ok |-> FALSE, val |-> [t |-> "none", v |-> <<>>], next |-> 0]

ParseOk(val, next) == [ok |-> TRUE, val |-> val, next |-> next]

MinOf(S) == CHOOSE x \in S : \A y \in S : x <= y

MaxOf(S) == CHOOSE x \in S : \A y \in S : x >= y

SkipWs(s, i) ==
    LET non == {j \in i..Len(s) : s[j] \notin SpaceChars}
    IN  IF non = {} THEN Len(s) + 1 ELSE MinOf(non)

DigitValue(c) == CHOOSE d \in 0..9 : <<"0", "1", "2", "3", "4", "5", "6", "7", "8", "9">>[d + 1] = c

\* int(s) for a non-empty string of digits
RECURSIVE StrToInt(_)
StrToInt(s) ==
    IF Len(s) = 1 THEN DigitValue(s[1])
    ELSE 10 * StrToInt(Slice(s, 1, Len(s) - 1)) + DigitValue(s[Len(s)])

\* s[i] is the opening quote
ParseString(s, i) ==
    LET ends == {j \in (i + 1)..Len(s) : s[j] = "\""}
    IN  IF ends = {} THEN ParseFail
        ELSE LET j == MinOf(ends)
             IN  IF \E k \in (i + 1)..(j - 1) : s[k] \in CtrlChars THEN ParseFail
                 ELSE ParseOk(JStr(Slice(s, i + 1, j - 1)), j + 1)

\* s[i] is a digit; a number that starts with 0 is the single digit
ParseNumber(s, i) ==
    LET j == IF s[i] = "0" THEN i
             ELSE MaxOf({k \in i..Len(s) : AllIn(s, i, k, DigitChars)})
    IN  ParseOk(JNum(StrToInt(Slice(s, i, j))), j + 1)

\* The decoder as a pushdown machine over the characters of s.  st is
\* [i, phase, stack, val]: i the next position, stack the open containers
\* (innermost last), each [kind, acc, key] with acc the members or elements
\* read so far and key the member name waiting for its value.  Phases:
\*   "value"  a value must start            "first"  just after "[" or "{"
\*   "key"    a member name must start      "colon"  a ":" must follow
\*   "after"  a value has ended             "done", "fail"
ParseStart == [i |-> 1, phase |-> "value", stack |-> <<>>, val |-> JStr(<<>>)]

Failed(st) == [st EXCEPT !.phase = "fail"]

\* The value v has ended before position next
Complete(st, v, next) ==
    IF st.stack = <<>>
    THEN [st EXCEPT !.i = next, !.phase = "done", !.val = v]
    ELSE LET top == st.stack[Len(st.stack)]
             item == IF top.kind = "arr" THEN v ELSE <<top.key, v>>
         IN  [st EXCEPT !.i = next, !.phase = "after",
                        !.stack[Len(st.stack)].acc = Append(top.acc, item)]

\* The innermost container ends at position st.i
CloseTop(st) ==
    LET top == st.stack[Len(st.stack)]
        v == IF top.kind = "arr" THEN JArr(top.acc) ELSE JObj(top.acc)
    IN  Complete([st EXCEPT !.stack = Slice(st.stack, 1, Len(st.stack) - 1)], v, st.i + 1)

Open(st, kind) ==
    [st EXCEPT !.i = st.i + 1, !.phase = "first",
               !.stack = Append(st.stack, [kind |-> kind, acc |-> <<>>, key |-> <<>>])]

\* A value starts at s[st.i]
StartValue(s, st) ==
    LET c == s[st.i]
    IN  IF c = "{" THEN Open(st, "obj")
        ELSE IF c = "[" THEN Open(st, "arr")
        ELSE IF c = "\""
        THEN LET r == ParseString(s, st.i)
             IN  IF r.ok THEN Complete(st, r.val, r.next) ELSE Failed(st)
        ELSE IF c \in DigitChars
        THEN LET r == ParseNumber(s, st.i)
             IN  Complete(st, r.val, r.next)
        ELSE Failed(st)

\* A member name starts at s[st.i]
StartKey(s, st) ==
    IF s[st.i] # "\"" THEN Failed(st)
    ELSE LET r == ParseString(s, st.i)
         IN  IF r.ok
             THEN [st EXCEPT !.i = r.next, !.phase = "colon",
                             !.stack[Len(st.stack)].key = r.val.v]
             ELSE Failed(st)

\* One step of the decoder at the character s[st.i]
ParseStep(s, st) ==
    LET c == s[st.i]
        kind == IF st.stack = <<>> THEN "none" ELSE st.stack[Len(st.stack)].kind
    IN  IF c \in SpaceChars THEN [st EXCEPT !.i = st.i + 1]
        ELSE IF st.phase = "value" THEN StartValue(s, st)
        ELSE IF st.phase = "first"
        THEN IF kind = "arr"
             THEN IF c = "]" THEN CloseTop(st) ELSE StartValue(s, st)
             ELSE IF c = "}" THEN CloseTop(st) ELSE StartKey(s, st)
        ELSE IF st.phase = "key" THEN StartKey(s, st)
        ELSE IF st.phase = "colon"
        THEN IF c = ":" THEN [st EXCEPT !.i = st.i + 1, !.phase = "value"] ELSE Failed(st)
        ELSE IF kind = "arr"
        THEN IF c = "," THEN [st EXCEPT !.i = st.i + 1, !.phase = "value"]
             ELSE IF c = "]" THEN CloseTop(st)
             ELSE Failed(st)
        ELSE IF c = "," THEN [st EXCEPT !.i = st.i + 1, !.phase = "key"]
             ELSE IF c = "}" THEN CloseTop(st)
             ELSE Failed(st)

RECURSIVE ParseRun(_, _)
ParseRun(s, st) ==
    IF st.phase \in {"done", "fail"} THEN st
    ELSE IF st.i > Len(s) THEN Failed(st)
    ELSE ParseRun(s, ParseStep(s, st))

\* json.loads(s): ok is FALSE where it raises JSONDecodeError
LoadsResult(s, st) ==
    IF st.phase = "done" /\ SkipWs(s, st.i) > Len(s)
    THEN ParseOk(st.val, st.i)
    ELSE ParseFail

JsonLoads(s) == LoadsResult(s, ParseRun(s, ParseStart))

\* key in d, for a dict d
HasKey(d, key) == \E k \in 1..Len(d.v) : d.v[k][1] = key

\* d.get(key, default): the last member with the key wins
DictGet(d, key, default) ==
    LET hits == {k \in 1..Len(d.v) : d.v[k][1] = key}
    IN  IF hits = {} THEN default ELSE d.v[MaxOf(hits)][2]

-----------------------------------------------------------------------------
(* services/llm_service.py: the record parsers.  The model shortens the     *)
(* field names and the severities to one letter: comments "c",              *)
(* paragraph_index "p", target_text "t", comment "m", severity "s";         *)
(* error "e", warning "w", suggestion "g".                                  *)

KeyComments == <<"c">>

KeyParagraphIndex == <<"p">>

KeyTargetText == <<"t">>

KeyComment == <<"m">>

KeySeverity == <<"s">>

SevError == <<"e">>

SevWarning == <<"w">>

SevSuggestion == <<"g">>

\* models/schemas.py: ReviewComment
ReviewComment(paragraph_index, target_text, comment, severity) ==
    [paragraph_index |-> paragraph_index, target_text |-> target_text,
     comment |-> comment, severity |-> severity]

NoComment == ReviewComment(0, <<>>, <<>>, <<>>)

\* Validation of an int field: an integer, or a string of digits
ValidInt(v) ==
    \/ v.t = "num"
    \/ v.t = "str" /\ v.v # <<>> /\ AllIn(v.v, 1, Len(v.v), DigitChars)

IntOf(v) == IF v.t = "num" THEN v.v ELSE StrToInt(v.v)

\* Validation of a str field
ValidStr(v) == v.t = "str"

\* ReviewComment(paragraph_index=c.get(..., 0), ...): ok is FALSE where validation raises
Validate(pi, tt, cm, sv) ==
    IF ValidInt(pi) /\ ValidStr(tt) /\ ValidStr(cm) /\ ValidStr(sv)
    THEN [ok |-> TRUE, comment |-> ReviewComment(IntOf(pi), tt.v, cm.v, sv.v)]
    ELSE [ok |-> FALSE, comment |-> NoComment]

MakeComment(c) ==
    Validate(DictGet(c, KeyParagraphIndex, JNum(0)),
             DictGet(c, KeyTargetText, JStr(<<>>)),
             DictGet(c, KeyComment, JStr(<<>>)),
             DictGet(c, KeySeverity, JStr(SevSuggestion)))

\* ok is FALSE where the function returns None
\* Lines 66-72, for the outcome r of json.loads
SingleComment(r) ==
    IF r.ok /\ r.val.t = "obj"
    THEN IF HasKey(r.val, KeyTargetText) /\ HasKey(r.val, KeyComment)
         THEN MakeComment(r.val)
         ELSE [ok |-> FALSE, comment |-> NoComment]
    ELSE [ok |-> FALSE, comment |-> NoComment]

try_extract_single_comment(json_str) == SingleComment(JsonLoads(json_str))

\* The comments of the elements of raw_comments that are dicts and validate
\* Lines 37-48 for one element c: c.get raises on anything but a dict
ElementComment(c) ==
    IF c.t = "obj" THEN MakeComment(c) ELSE [ok |-> FALSE, comment |-> NoComment]

Kept(made) == IF made.ok THEN <<made.comment>> ELSE <<>>

RECURSIVE CommentsOf(_, _)
CommentsOf(elems, k) ==
    IF k > Len(elems) THEN <<>>
    ELSE Kept(ElementComment(elems[k])) \o CommentsOf(elems, k + 1)

\* raised: an exception other than JSONDecodeError leaves the function
\* (data.get on a non-dict, iteration over a number)
\* Lines 36-49: a list is iterated, a string is iterated character by
\* character (each character is skipped, c.get raising), a dict is iterated
\* by its keys (likewise skipped), a number is not iterable
IterateComments(raw_comments) ==
    IF raw_comments.t = "arr"
    THEN [raised |-> FALSE, comments |-> CommentsOf(raw_comments.v, 1)]
    ELSE IF raw_comments.t = "num"
    THEN [raised |-> TRUE, comments |-> <<>>]
    ELSE [raised |-> FALSE, comments |-> <<>>]

\* Lines 34-52, for the outcome r of json.loads
CommentsOfLoaded(r) ==
    IF ~r.ok THEN [raised |-> FALSE, comments |-> <<>>]
    ELSE IF r.val.t # "obj" THEN [raised |-> TRUE, comments |-> <<>>]
    ELSE IterateComments(DictGet(r.val, KeyComments, JArr(<<>>)))

extract_comments_from_json(json_str) == CommentsOfLoaded(JsonLoads(json_str))

-----------------------------------------------------------------------------
(* services/llm_service.py: _stream_single_batch.  Offsets into the buffer  *)
(* are those of the source (0-based): character i is buffer[i + 1] here.    *)

\* Lines 172-176
FreshExtractor ==
    [buffer |-> <<>>, in_comments_array |-> FALSE, brace_depth |-> 0,
     current_object_start |-> -1, emitted_count |-> 0]

\* '"comments"'
QuotedField == <<"\"">> \o KeyComments \o <<"\"">>

\* '"comments"' in buffer[:i]
FieldSeen(buf, i) == Contains(Slice(buf, 1, i), QuotedField)

\* A faulty ScanStart: every chunk rescans the buffer from its beginning
\* (C5 rejects it)
ScanStartRescan(buf, content) == 0

\* Lines 187-189: where the scan of a new chunk starts
ScanStart(buf, content) ==
    LET i == Len(buf) - Len(content) IN IF i < 0 THEN 0 ELSE i

TextEvent(content) == [type |-> "text", data |-> content]

CommentEvent(comment) == [type |-> "comment", data |-> comment]

\* A faulty CloseObject: the start offset is cleared only when the slice
\* parsed as a comment (C37 rejects it)
CloseObjectKeepsFailedStart(st, comment) ==
    [st  |-> [st EXCEPT !.brace_depth = @ - 1,
                        !.emitted_count = IF comment.ok THEN @ + 1 ELSE @,
                        !.current_object_start = IF comment.ok THEN -1 ELSE @],
     out |-> IF comment.ok THEN <<CommentEvent(comment.comment)>> ELSE <<>>]

\* Lines 203-210: an object of depth 1 closed, comment is the outcome of
\* try_extract_single_comment on it
CloseObject(st, comment) ==
    [st  |-> [st EXCEPT !.brace_depth = @ - 1,
                        !.emitted_count = IF comment.ok THEN @ + 1 ELSE @,
                        !.current_object_start = -1],
     out |-> IF comment.ok THEN <<CommentEvent(comment.comment)>> ELSE <<>>]

\* Lines 192-212: the loop body for buffer[i]
ScanChar(st, i) ==
    LET char == st.buffer[i + 1]
    IN  IF ~st.in_comments_array
        THEN [st  |-> IF char = "[" /\ FieldSeen(st.buffer, i)
                      THEN [st EXCEPT !.in_comments_array = TRUE] ELSE st,
              out |-> <<>>]
        ELSE IF char = "{"
        THEN [st  |-> [st EXCEPT !.current_object_start =
                                      IF st.brace_depth = 0 THEN i ELSE @,
                                 !.brace_depth = @ + 1],
              out |-> <<>>]
        ELSE IF char = "}"
        THEN IF st.brace_depth - 1 = 0 /\ st.current_object_start >= 0
             THEN CloseObject(st, try_extract_single_comment(
                               Slice(st.buffer, st.current_object_start + 1, i + 1)))
             ELSE [st |-> [st EXCEPT !.brace_depth = @ - 1], out |-> <<>>]
        ELSE IF char = "]"
        THEN [st |-> [st EXCEPT !.in_comments_array = FALSE], out |-> <<>>]
        ELSE [st |-> st, out |-> <<>>]

\* Lines 191-214: while i < len(buffer)
Yield(out, r) == [st |-> r.st, out |-> out \o r.out]

RECURSIVE ScanLoop(_, _)
ScanLoop(r, i) ==
    IF i >= Len(r.st.buffer) THEN r
    ELSE ScanLoop(Yield(r.out, ScanChar(r.st, i)), i + 1)

TextLast(content, r) == [st |-> r.st, out |-> Append(r.out, TextEvent(content))]

\* A faulty ProcessChunk: the text event is yielded after the scan of the
\* chunk (C19 rejects it)
ProcessChunkTextLast(st, content) ==
    IF content = <<>> THEN [st |-> st, out |-> <<>>]
    ELSE TextLast(content,
                  ScanLoop([st |-> [st EXCEPT !.buffer = @ \o content], out |-> <<>>],
                           ScanStart(st.buffer \o content, content)))

\* Lines 179-214: the loop body for one chunk whose delta.content is content
ProcessChunk(st, content) ==
    IF content = <<>> THEN [st |-> st, out |-> <<>>]
    ELSE ScanLoop([st |-> [st EXCEPT !.buffer = @ \o content], out |-> <<TextEvent(content)>>],
                  ScanStart(st.buffer \o content, content))

\* Lines 216-220: the whole-buffer parse after the stream is exhausted
YieldAll(r) ==
    [raised |-> r.raised,
     out |-> [k \in 1..Len(r.comments) |-> CommentEvent(r.comments[k])]]

\* A faulty FinishStream: the whole buffer is parsed whether or not the scan
\* has yielded a comment (C20 rejects it)
FinishStreamAlways(st) == YieldAll(extract_comments_from_json(st.buffer))

FinishStream(st) ==
    IF st.emitted_count = 0
    THEN YieldAll(extract_comments_from_json(st.buffer))
    ELSE [raised |-> FALSE, out |-> <<>>]

-----------------------------------------------------------------------------
(* _stream_single_batch as a state machine: one action per suspension point *)

ExState ==
    [buffer |-> buffer, in_comments_array |-> in_comments_array,
     brace_depth |-> brace_depth, current_object_start |-> current_object_start,
     emitted_count |-> emitted_count]

SetExState(st) ==
    /\ buffer' = st.buffer
    /\ in_comments_array' = st.in_comments_array
    /\ brace_depth' = st.brace_depth
    /\ current_object_start' = st.current_object_start
    /\ emitted_count' = st.emitted_count

ExIdle ==
    /\ buffer = <<>>
    /\ in_comments_array = FALSE
    /\ brace_depth = 0
    /\ current_object_start = -1
    /\ emitted_count = 0
    /\ ex_pc = "idle"
    /\ yielded = <<>>
    /\ stream_text = <<>>
    /\ delivered = 0
    /\ nchunks = 0

\* A faulty Respond: the locals of the scan keep the values the previous
\* invocation left (C32 rejects it)
RespondStale ==
    /\ ex_pc = "requesting"
    /\ ex_pc' = "streaming"
    /\ yielded' = <<>>
    /\ delivered' = 0
    /\ nchunks' = 0
    /\ UNCHANGED <<buffer, in_comments_array, brace_depth, current_object_start,
                   emitted_count, stream_text>>

\* Lines 164-176: the provider answers the request, the locals are initialised
Respond ==
    /\ ex_pc = "requesting"
    /\ SetExState(FreshExtractor)
    /\ ex_pc' = "streaming"
    /\ yielded' = <<>>
    /\ delivered' = 0
    /\ nchunks' = 0
    /\ UNCHANGED stream_text

\* The generator moves to the state r.st, having yielded r.out
Advance(r) ==
    /\ SetExState(r.st)
    /\ yielded' = yielded \o r.out

\* The generator ends, having yielded r.out, or lets an exception out
Leave(r) ==
    /\ ex_pc' = IF r.raised THEN "raised" ELSE "ended"
    /\ yielded' = yielded \o r.out

\* Lines 178-214: one chunk arrives, r is the outcome of its loop body
ChunkOutcome(content, r) ==
    /\ ex_pc = "streaming"
    /\ Advance(r)
    /\ delivered' = delivered + Len(content)
    /\ nchunks' = nchunks + 1
    /\ UNCHANGED <<ex_pc, stream_text>>

Chunk(content) == ChunkOutcome(content, ProcessChunk(ExState, content))

\* Lines 216-220: the stream is exhausted
EndOutcome(r) ==
    /\ ex_pc = "streaming"
    /\ Leave(r)
    /\ UNCHANGED <<buffer, in_comments_array, brace_depth, current_object_start,
                   emitted_count, stream_text, delivered, nchunks>>

EndOfStream == EndOutcome(FinishStream(ExState))

-----------------------------------------------------------------------------
(* Inputs of _stream_single_batch and of review_paragraphs_stream *)

\* Most chunks the provider cuts a response text into, in SpecExtract
MaxFragments == 3

\* Most chunks of one Section's response, in SpecOrch
MaxOrchChunks == 2

\* {"c":[{"t":"a","m":"b","s":"e"}]}
TextOne ==
    <<"{", "\"", "c", "\"", ":", "[",
      "{", "\"", "t", "\"", ":", "\"", "a", "\"", ",",
           "\"", "m", "\"", ":", "\"", "b", "\"", ",",
           "\"", "s", "\"", ":", "\"", "e", "\"", "}",
      "]", "}">>

\* {"c":[{"t":"}","m":"b"}]}
TextBraceInString ==
    <<"{", "\"", "c", "\"", ":", "[",
      "{", "\"", "t", "\"", ":", "\"", "}", "\"", ",",
           "\"", "m", "\"", ":", "\"", "b", "\"", "}",
      "]", "}">>

\* {"c":[{"t":"a","m":"b"},{"t":"d","m":"b"}]}
TextTwo ==
    <<"{", "\"", "c", "\"", ":", "[",
      "{", "\"", "t", "\"", ":", "\"", "a", "\"", ",",
           "\"", "m", "\"", ":", "\"", "b", "\"", "}", ",",
      "{", "\"", "t", "\"", ":", "\"", "d", "\"", ",",
           "\"", "m", "\"", ":", "\"", "b", "\"", "}",
      "]", "}">>

\* {"c":[{"t":"a","m":"b"}  (the response stops inside the array)
TextTruncated ==
    <<"{", "\"", "c", "\"", ":", "[",
      "{", "\"", "t", "\"", ":", "\"", "a", "\"", ",",
           "\"", "m", "\"", ":", "\"", "b", "\"", "}">>

\* [{"t":"a","m":"b"},"c"]  (the field's name follows the bracket)
TextNameAfter ==
    <<"[", "{", "\"", "t", "\"", ":", "\"", "a", "\"", ",",
                "\"", "m", "\"", ":", "\"", "b", "\"", "}", ",",
      "\"", "c", "\"", "]">>

\* xx
TextJunk == <<"x", "x">>

\* {"c":[{"t":"a","m":"b","s":"x"}]}  (a severity that is none of the three)
TextOddSeverity ==
    <<"{", "\"", "c", "\"", ":", "[",
      "{", "\"", "t", "\"", ":", "\"", "a", "\"", ",",
           "\"", "m", "\"", ":", "\"", "b", "\"", ",",
           "\"", "s", "\"", ":", "\"", "x", "\"", "}",
      "]", "}">>

\* {"c":[{"t":"}","s":"x","m":"b"}]}  (the same, found by the whole-buffer parse)
TextOddSeverityLate ==
    <<"{", "\"", "c", "\"", ":", "[",
      "{", "\"", "t", "\"", ":", "\"", "}", "\"", ",",
           "\"", "s", "\"", ":", "\"", "x", "\"", ",",
           "\"", "m", "\"", ":", "\"", "b", "\"", "}",
      "]", "}">>

\* {"c":[{"t":"a"},{"t":"d","m":"b"}]}  (the first object lacks a field)
TextDropThenKeep ==
    <<"{", "\"", "c", "\"", ":", "[",
      "{", "\"", "t", "\"", ":", "\"", "a", "\"", "}", ",",
      "{", "\"", "t", "\"", ":", "\"", "d", "\"", ",",
           "\"", "m", "\"", ":", "\"", "b", "\"", "}",
      "]", "}">>

\* {"c":[{"t":"a","m":"b"},{"t":"}","m":"b"},{"t":"d","m":"b"}]}
\* (the second object has a closing brace inside a string)
TextDropMidObject ==
    <<"{", "\"", "c", "\"", ":", "[",
      "{", "\"", "t", "\"", ":", "\"", "a", "\"", ",",
           "\"", "m", "\"", ":", "\"", "b", "\"", "}", ",",
      "{", "\"", "t", "\"", ":", "\"", "}", "\"", ",",
           "\"", "m", "\"", ":", "\"", "b", "\"", "}", ",",
      "{", "\"", "t", "\"", ":", "\"", "d", "\"", ",",
           "\"", "m", "\"", ":", "\"", "b", "\"", "}",
      "]", "}">>

\* {"c":[{"t":"a"}]}  (the only object lacks a field)
TextDropOnly ==
    <<"{", "\"", "c", "\"", ":", "[",
      "{", "\"", "t", "\"", ":", "\"", "a", "\"", "}",
      "]", "}">>

\* {"c":[{"t":"]","m":"b"}]}  (a closing bracket inside an object)
TextBracketInObject ==
    <<"{", "\"", "c", "\"", ":", "[",
      "{", "\"", "t", "\"", ":", "\"", "]", "\"", ",",
           "\"", "m", "\"", ":", "\"", "b", "\"", "}",
      "]", "}">>

\* {"c":[{"t":"]{[}","m":"b"}]}  (brackets and braces inside a string)
TextBracketsInString ==
    <<"{", "\"", "c", "\"", ":", "[",
      "{", "\"", "t", "\"", ":", "\"", "]", "{", "[", "}", "\"", ",",
           "\"", "m", "\"", ":", "\"", "b", "\"", "}",
      "]", "}">>

\* {"c":[],"o":[{"t":"a","m":"b"}]}  (an object in an array of another field)
TextOtherArray ==
    <<"{", "\"", "c", "\"", ":", "[", "]", ",", "\"", "o", "\"", ":", "[",
      "{", "\"", "t", "\"", ":", "\"", "a", "\"", ",",
           "\"", "m", "\"", ":", "\"", "b", "\"", "}",
      "]", "}">>

\* {"c":[{{}  (an object opened inside an open object)
TextNestedOpen == <<"{", "\"", "c", "\"", ":", "[", "{", "{", "}">>

\* {"c":[}{{  (a closing brace directly inside the array)
TextCloseFirst == <<"{", "\"", "c", "\"", ":", "[", "}", "{", "{">>

ExtractTexts ==
    {TextOne, TextBraceInString, TextTwo, TextTruncated, TextNameAfter, TextJunk,
     TextOddSeverity, TextOddSeverityLate, TextDropThenKeep, TextDropMidObject,
     TextDropOnly, TextBracketInObject, TextBracketsInString, TextOtherArray,
     TextNestedOpen, TextCloseFirst}

\* {"c":[{"t":"a","m":"b"}]}
FragRecord ==
    <<"{", "\"", "c", "\"", ":", "[",
      "{", "\"", "t", "\"", ":", "\"", "a", "\"", ",",
           "\"", "m", "\"", ":", "\"", "b", "\"", "}",
      "]", "}">>

\* []
FragArray == <<"[", "]">>

OrchFragments == {FragRecord, FragArray}

\* {"c":[{"t":"a"   -- a response that stops inside an object
FragOpen ==
    <<"{", "\"", "c", "\"", ":", "[",
      "{", "\"", "t", "\"", ":", "\"", "a", "\"">>

\* ,"m":"b"}]}   -- what would complete that object
FragClose ==
    <<",", "\"", "m", "\"", ":", "\"", "b", "\"", "}", "]", "}">>

\* The chunks of SpecIsolation
IsolationFragments == {FragOpen, FragClose, FragRecord}

\* A document of two eligible Sections, the abstract and an introduction
IsolationInputs == {MakeParagraphs(<<TxtAbstract, TxtBody, TxtIntro>>, 1)}

\* "参考文献"
TxtReferences == <<"u53c2", "u8003", "u6587", "u732e">>

OrchInputs ==
    {MakeParagraphs(texts, 1) : texts \in
        { <<>>,
          <<TxtBody>>,
          <<TxtToc, TxtTocEntry>>,
          <<TxtBody, TxtToc, TxtTocEntry>>,
          <<TxtAbstract, TxtBody, TxtIntro>>,
          <<TxtBody, TxtToc, TxtTocEntry, TxtAbstract, TxtIntro, TxtReferences>> }}

-----------------------------------------------------------------------------
(* services/llm_service.py: review_paragraphs_stream.  An event is          *)
(* [event, data, batch]: batch is the loop index in scope when the event    *)
(* was yielded (0 before the loop, total_batches + 1 after it).             *)

\* _SKIP_TYPES
SkipTypes == {"cover", "toc"}

\* A faulty filter: only the cover is skipped (C3 rejects it)
EligibleSectionsKeepToc(all) == SelectSeq(all, LAMBDA sec : sec.section_type # "cover")

\* Line 254: [s for s in all_sections if s.section_type not in _SKIP_TYPES]
EligibleSections(all) == SelectSeq(all, LAMBDA sec : sec.section_type \notin SkipTypes)

\* Lines 267-276 and 284-293
ProgressEvent(current_batch, total_batches) ==
    [event |-> "progress",
     data  |-> [current_batch |-> current_batch, total_batches |-> total_batches],
     batch |-> current_batch]

\* Lines 307-316: the tuples of _stream_single_batch as SSE events
ForwardEvents(out, batch) ==
    [k \in 1..Len(out) |-> [event |-> out[k].type, data |-> out[k].data, batch |-> batch]]

\* Lines 324-329
ErrorEvent(section, batch) == [event |-> "error", data |-> section.name, batch |-> batch]

\* Line 334
DoneEvent(batch) == [event |-> "done", data |-> <<>>, batch |-> batch]

OrchIdle ==
    /\ pc = "idle"
    /\ all_sections = <<>>
    /\ eligible = <<>>
    /\ batch_idx = 0
    /\ events = <<>>
    /\ calls = <<>>
    /\ failed = {}

OrchInit ==
    /\ pc = "start"
    /\ all_sections = <<>>
    /\ eligible = <<>>
    /\ batch_idx = 0
    /\ events = <<>>
    /\ calls = <<>>
    /\ failed = {}

total_batches == Len(eligible)

\* A faulty Start: the first progress event counts the skipped Sections too
\* (C4 rejects it)
StartCountsAll ==
    /\ pc = "start"
    /\ all_sections' = detect_sections(paragraphs)
    /\ eligible' = EligibleSections(all_sections')
    /\ events' = <<ProgressEvent(0, Len(all_sections'))>>
    /\ batch_idx' = 1
    /\ pc' = "loop"
    /\ UNCHANGED <<calls, failed, segvars, exvars>>

\* Lines 244-276: segmentation, the filter, the first progress event
Start ==
    /\ pc = "start"
    /\ all_sections' = detect_sections(paragraphs)
    /\ eligible' = EligibleSections(all_sections')
    /\ events' = <<ProgressEvent(0, Len(eligible'))>>
    /\ batch_idx' = 1
    /\ pc' = "loop"
    /\ UNCHANGED <<calls, failed, segvars, exvars>>

\* Lines 279-304: the next Section's progress event, its messages, its request
BeginSection ==
    /\ pc = "loop"
    /\ batch_idx <= total_batches
    /\ events' = Append(events, ProgressEvent(batch_idx, total_batches))
    /\ calls' = Append(calls, eligible[batch_idx])
    /\ ex_pc' = "requesting"
    /\ pc' = "section"
    /\ UNCHANGED <<all_sections, eligible, batch_idx, failed, segvars,
                   buffer, in_comments_array, brace_depth, current_object_start,
                   emitted_count, yielded, stream_text, delivered, nchunks>>

\* The end of one iteration of the loop: on to the next Section
NextSection ==
    /\ batch_idx' = batch_idx + 1
    /\ pc' = "loop"

\* A faulty except clause: the error ends the request (C1 rejects it)
SectionErrorAborts ==
    /\ events' = Append(events, ErrorEvent(eligible[batch_idx], batch_idx))
    /\ failed' = failed \cup {batch_idx}
    /\ pc' = "finished"
    /\ UNCHANGED batch_idx

\* A faulty except clause: a Section that failed for the first time is tried
\* once more (C31 rejects it)
SectionErrorRetries ==
    /\ events' = Append(events, ErrorEvent(eligible[batch_idx], batch_idx))
    /\ failed' = failed \cup {batch_idx}
    /\ IF batch_idx \in failed
       THEN NextSection
       ELSE pc' = "loop" /\ UNCHANGED batch_idx

\* A faulty except clause: what the failed Section has yielded is taken back
\* and replaced by the error event (C33 rejects it)
SectionErrorRollsBack ==
    /\ events' = Append(SelectSeq(events, LAMBDA e : e.batch # batch_idx),
                        ErrorEvent(eligible[batch_idx], batch_idx))
    /\ failed' = failed \cup {batch_idx}
    /\ NextSection

\* Lines 318-331: the except clause
SectionError ==
    /\ events' = Append(events, ErrorEvent(eligible[batch_idx], batch_idx))
    /\ failed' = failed \cup {batch_idx}
    /\ NextSection

\* Line 164 raises: the provider refuses the request
ProviderCallFails ==
    /\ pc = "section"
    /\ ex_pc = "requesting"
    /\ ex_pc' = "raised"
    /\ SectionError
    /\ UNCHANGED <<all_sections, eligible, calls, segvars,
                   buffer, in_comments_array, brace_depth, current_object_start,
                   emitted_count, yielded, stream_text, delivered, nchunks>>

\* A faulty ProviderResponds: the stream is left undrained and the loop goes
\* on to the next Section (C13 rejects it)
ProviderRespondsDetached ==
    /\ pc = "section"
    /\ Respond
    /\ batch_idx' = batch_idx + 1
    /\ pc' = "loop"
    /\ UNCHANGED <<all_sections, eligible, events, calls, failed, segvars>>

\* Line 164 returns
ProviderResponds ==
    /\ pc = "section"
    /\ Respond
    /\ UNCHANGED <<orchvars, segvars>>

\* Lines 304-316 for one chunk, r the outcome of its loop body
ForwardChunk(content, r) ==
    /\ ChunkOutcome(content, r)
    /\ events' = events \o ForwardEvents(r.out, batch_idx)

\* Lines 304-316: a chunk arrives, its text and comment events are forwarded
StreamChunk ==
    /\ pc = "section"
    /\ nchunks < MaxOrchChunks
    /\ \E content \in OrchFragments : ForwardChunk(content, ProcessChunk(ExState, content))
    /\ UNCHANGED <<pc, all_sections, eligible, batch_idx, calls, failed, segvars>>

\* Line 178 raises: the stream breaks
StreamFails ==
    /\ pc = "section"
    /\ ex_pc = "streaming"
    /\ ex_pc' = "raised"
    /\ SectionError
    /\ UNCHANGED <<all_sections, eligible, calls, segvars,
                   buffer, in_comments_array, brace_depth, current_object_start,
                   emitted_count, yielded, stream_text, delivered, nchunks>>

\* The stream ends: the whole-buffer parse, its comments or its exception
ForwardEnd(r) ==
    /\ EndOutcome(r)
    /\ IF r.raised
       THEN SectionError
       ELSE /\ events' = events \o ForwardEvents(r.out, batch_idx)
            /\ NextSection
            /\ UNCHANGED failed

StreamEnds ==
    /\ pc = "section"
    /\ ForwardEnd(FinishStream(ExState))
    /\ UNCHANGED <<all_sections, eligible, calls, segvars>>

\* A faulty Finish: the done event is yielded only if no Section failed
\* (C18 rejects it)
FinishUnlessFailed ==
    /\ pc = "loop"
    /\ batch_idx > total_batches
    /\ failed = {}
    /\ events' = Append(events, DoneEvent(batch_idx))
    /\ pc' = "finished"
    /\ UNCHANGED <<all_sections, eligible, batch_idx, calls, failed, segvars, exvars>>

\* A faulty Finish: the done event may be yielded before the loop is over
\* (C2 rejects it)
FinishEarly ==
    /\ pc = "loop"
    /\ events' = Append(events, DoneEvent(batch_idx))
    /\ pc' = "finished"
    /\ UNCHANGED <<all_sections, eligible, batch_idx, calls, failed, segvars, exvars>>

\* A faulty Finish: a request without eligible Sections ends without the done
\* event (C34 rejects it)
FinishSilentIfEmpty ==
    /\ pc = "loop"
    /\ batch_idx > total_batches
    /\ events' = IF total_batches = 0 THEN events ELSE Append(events, DoneEvent(batch_idx))
    /\ pc' = "finished"
    /\ UNCHANGED <<all_sections, eligible, batch_idx, calls, failed, segvars, exvars>>

\* Line 334
Finish ==
    /\ pc = "loop"
    /\ batch_idx > total_batches
    /\ events' = Append(events, DoneEvent(batch_idx))
    /\ pc' = "finished"
    /\ UNCHANGED <<all_sections, eligible, batch_idx, calls, failed, segvars, exvars>>

\* A faulty Cancel: the except clause catches the cancellation and yields an
\* error event for the Section being processed (C14 rejects it)
CancelCaught ==
    /\ pc \in {"start", "loop", "section"}
    /\ pc' = "cancelled"
    /\ events' = IF pc = "section"
                 THEN Append(events, ErrorEvent(eligible[batch_idx], batch_idx))
                 ELSE events
    /\ UNCHANGED <<all_sections, eligible, batch_idx, calls, failed, segvars, exvars>>

\* The consumer goes away: CancelledError or GeneratorExit at the suspension point
Cancel ==
    /\ pc \in {"start", "loop", "section"}
    /\ pc' = "cancelled"
    /\ UNCHANGED <<all_sections, eligible, batch_idx, events, calls, failed, segvars, exvars>>

\* Lines 304-316, for the chunks of SpecIsolation: a chunk arrives that may
\* stop inside an object
StreamPartialChunk ==
    /\ pc = "section"
    /\ nchunks < MaxOrchChunks
    /\ \E content \in IsolationFragments :
          ForwardChunk(content, ProcessChunk(ExState, content))
    /\ UNCHANGED <<pc, all_sections, eligible, batch_idx, calls, failed, segvars>>

IsolationNext ==
    \/ Start
    \/ BeginSection
    \/ ProviderCallFails
    \/ ProviderResponds
    \/ StreamPartialChunk
    \/ StreamFails
    \/ StreamEnds
    \/ Finish
    \/ Cancel

OrchNext ==
    \/ Start
    \/ BeginSection
    \/ ProviderCallFails
    \/ ProviderResponds
    \/ StreamChunk
    \/ StreamFails
    \/ StreamEnds
    \/ Finish
    \/ Cancel

-----------------------------------------------------------------------------
(* services/llm_service.py: generate_overall_comment_stream.  Its position  *)
(* is kept in pc, the events it has yielded in events, the chunks received   *)
(* in nchunks; the other variables stay as they are.                         *)

\* Most chunks of the response, in SpecOverallLive
MaxOverallChunks == 3

\* delta.content of a chunk: a piece of text, or nothing
OverallContents == {<<>>, <<"a">>, <<"b">>}

\* Lines 373-376, 380-385 and 388: an SSE event of the overall comment
OverallEvent(ev, data) == [event |-> ev, data |-> data, batch |-> 0]

OverallFrame ==
    UNCHANGED <<segvars, buffer, in_comments_array, brace_depth, current_object_start,
                emitted_count, ex_pc, yielded, stream_text, delivered,
                all_sections, eligible, batch_idx, calls, failed>>

\* A faulty except clause: the generator returns after the error event
\* (C35 rejects it)
OverallFailsAndReturns ==
    /\ pc \in {"overall_requesting", "overall_streaming"}
    /\ events' = Append(events, OverallEvent("error", <<>>))
    /\ pc' = "overall_finished"
    /\ UNCHANGED nchunks
    /\ OverallFrame

\* Lines 363-368 and 378-385: create() raises, the except clause yields the
\* error event
OverallCallFails ==
    /\ pc = "overall_requesting"
    /\ events' = Append(events, OverallEvent("error", <<>>))
    /\ pc' = "overall_failed"
    /\ UNCHANGED nchunks
    /\ OverallFrame

\* Lines 363-368: create() returns the stream
OverallResponds ==
    /\ pc = "overall_requesting"
    /\ pc' = "overall_streaming"
    /\ UNCHANGED <<events, nchunks>>
    /\ OverallFrame

\* Lines 370-376: a chunk arrives; its content, if any, is yielded as a text
\* event
OverallChunk ==
    /\ pc = "overall_streaming"
    /\ nchunks < MaxOverallChunks
    /\ \E content \in OverallContents :
          events' = IF content = <<>> THEN events
                    ELSE Append(events, OverallEvent("text", content))
    /\ nchunks' = nchunks + 1
    /\ UNCHANGED pc
    /\ OverallFrame

\* Lines 370-371 and 378-385: the stream breaks, or a chunk has no choices;
\* the except clause yields the error event
OverallStreamFails ==
    /\ pc = "overall_streaming"
    /\ events' = Append(events, OverallEvent("error", <<>>))
    /\ pc' = "overall_failed"
    /\ UNCHANGED nchunks
    /\ OverallFrame

\* Lines 370 and 387-388: the stream is exhausted, the done event is yielded
OverallStreamEnds ==
    /\ pc = "overall_streaming"
    /\ events' = Append(events, OverallEvent("done", <<>>))
    /\ pc' = "overall_finished"
    /\ UNCHANGED nchunks
    /\ OverallFrame

\* Lines 387-388 after the except clause: the done event is yielded
OverallDone ==
    /\ pc = "overall_failed"
    /\ events' = Append(events, OverallEvent("done", <<>>))
    /\ pc' = "overall_finished"
    /\ UNCHANGED nchunks
    /\ OverallFrame

\* The consumer goes away: CancelledError or GeneratorExit at the suspension
\* point, which except Exception does not catch
OverallCancel ==
    /\ pc \in {"overall_requesting", "overall_streaming", "overall_failed"}
    /\ pc' = "overall_cancelled"
    /\ UNCHANGED <<events, nchunks>>
    /\ OverallFrame

OverallNext ==
    \/ OverallCallFails
    \/ OverallResponds
    \/ OverallChunk
    \/ OverallStreamFails
    \/ OverallStreamEnds
    \/ OverallDone
    \/ OverallCancel

-----------------------------------------------------------------------------
(* Specifications *)

vars == <<segvars, exvars, orchvars>>

\* detect_sections on paragraph lists of up to MaxParas paragraphs
InitSeg == (\E ps \in SegInputs : SegStart(ps)) /\ ExIdle /\ OrchIdle

SpecSeg == InitSeg /\ [][SegNext]_vars

\* detect_sections on long paragraph lists
InitChunk == (\E ps \in ChunkInputs : SegStart(ps)) /\ ExIdle /\ OrchIdle

SpecChunk == InitChunk /\ [][SegNext]_vars

\* detect_sections on lists of headings and of sentences that begin like one
InitHeading == (\E ps \in HeadingInputs : SegStart(ps)) /\ ExIdle /\ OrchIdle

SpecHeading == InitHeading /\ [][SegNext]_vars

\* detect_sections on lists in which a heading occurs more than once
InitResidual == (\E ps \in ResidualInputs : SegStart(ps)) /\ ExIdle /\ OrchIdle

SpecResidual == InitResidual /\ [][SegNext]_vars

\* detect_sections on lists of paragraphs that meet several rules at once
InitRules == (\E ps \in RuleInputs : SegStart(ps)) /\ ExIdle /\ OrchIdle

SpecRules == InitRules /\ [][SegNext]_vars

\* The provider sends the next fragment of the response text
Deliver ==
    /\ nchunks < MaxFragments
    /\ \E k \in 0..(Len(stream_text) - delivered) :
          /\ nchunks = MaxFragments - 1 => k = Len(stream_text) - delivered
          /\ Chunk(Slice(stream_text, delivered + 1, delivered + k))
    /\ UNCHANGED <<segvars, orchvars>>

ExtractRespond == Respond /\ UNCHANGED <<segvars, orchvars>>

\* The response text has been sent whole
ExtractEnd ==
    /\ delivered = Len(stream_text)
    /\ EndOfStream
    /\ UNCHANGED <<segvars, orchvars>>

ExtractNext == ExtractRespond \/ Deliver \/ ExtractEnd

\* _stream_single_batch on one response text, cut into fragments in every way
InitExtract ==
    /\ paragraphs = <<>>
    /\ SegIdle
    /\ OrchIdle
    /\ buffer = <<>>
    /\ in_comments_array = FALSE
    /\ brace_depth = 0
    /\ current_object_start = -1
    /\ emitted_count = 0
    /\ ex_pc = "requesting"
    /\ yielded = <<>>
    /\ stream_text \in ExtractTexts
    /\ delivered = 0
    /\ nchunks = 0

SpecExtract == InitExtract /\ [][ExtractNext]_vars

\* review_paragraphs_stream on a paragraph list, with every provider behaviour
InitOrch ==
    /\ paragraphs \in OrchInputs
    /\ SegIdle
    /\ ExIdle
    /\ OrchInit

SpecOrch == InitOrch /\ [][OrchNext]_vars

\* review_paragraphs_stream on two Sections whose responses may stop inside an
\* object
InitIsolation ==
    /\ paragraphs \in IsolationInputs
    /\ SegIdle
    /\ ExIdle
    /\ OrchInit

SpecIsolation == InitIsolation /\ [][IsolationNext]_vars

\* generate_overall_comment_stream, started and waiting for create()
InitOverall ==
    /\ paragraphs \in OrchInputs
    /\ SegIdle
    /\ ExIdle
    /\ pc = "overall_requesting"
    /\ all_sections = <<>>
    /\ eligible = <<>>
    /\ batch_idx = 0
    /\ events = <<>>
    /\ calls = <<>>
    /\ failed = {}

\* The consumer keeps reading, so the generator is resumed after the error
\* event (line 388); the provider call is answered or refused (line 363) and
\* the stream ends or breaks (line 370)
OverallFairness ==
    /\ WF_vars(OverallDone)
    /\ WF_vars(OverallResponds \/ OverallCallFails)
    /\ WF_vars(OverallStreamEnds \/ OverallStreamFails)

SpecOverallLive == InitOverall /\ [][OverallNext]_vars /\ OverallFairness

\* detect_sections on each paragraph list of OrchInputs
SectionsOf == [ps \in OrchInputs |-> detect_sections(ps)]

\* The step Start, its Sections read from SectionsOf: the same step, in a form
\* whose ENABLED is evaluated without running detect_sections again
StartTabulated ==
    /\ pc = "start"
    /\ all_sections' = SectionsOf[paragraphs]
    /\ eligible' = EligibleSections(all_sections')
    /\ events' = <<ProgressEvent(0, Len(eligible'))>>
    /\ batch_idx' = 1
    /\ pc' = "loop"
    /\ UNCHANGED <<calls, failed, segvars, exvars>>

\* The generator is iterated to its end unless the consumer goes away, so each
\* of its own steps is taken once it can be (lines 246-334); every provider
\* call is answered or refused (line 164) and every stream ends or breaks
\* (line 178)
OrchFairness ==
    /\ WF_vars(StartTabulated)
    /\ WF_vars(BeginSection)
    /\ WF_vars(Finish)
    /\ WF_vars(ProviderResponds \/ ProviderCallFails)
    /\ WF_vars(StreamEnds \/ StreamFails)

\* review_paragraphs_stream with a consumer that keeps reading and a provider
\* whose calls and streams all come to an end
SpecOrchLive == InitOrch /\ [][OrchNext]_vars /\ OrchFairness

-----------------------------------------------------------------------------
(* Properties of detect_sections (SpecSeg, SpecChunk) *)

\* detect_sections has returned
SegDone == seg_pc = "done"

\* The Sections of secs that hold the paragraph at position p
Holders(secs, p) ==
    {i \in 1..Len(secs) : \E k \in 1..Len(secs[i].paragraphs) : secs[i].paragraphs[k] = p}

\* The paragraph at position p has non-empty text and is not a TOC entry
Reviewable(p) ==
    /\ Strip(paragraphs[p].text) # <<>>
    /\ ~_is_toc_entry(Strip(paragraphs[p].text))

SameNormalizedName(a, b) ==
    _normalize_section_name(a.name) = _normalize_section_name(b.name)

\* C6 as stated: when a boundary is detected, every paragraph with non-empty
\* text that is not a TOC entry belongs to exactly one returned Section.
C6_EveryParagraphReturned ==
    (SegDone /\ boundaries # <<>>) =>
        \A p \in 1..Len(paragraphs) :
            Reviewable(p) => Cardinality(Holders(sections, p)) = 1

\* C6, amended: when a boundary is detected, every input paragraph belongs to
\* exactly one Section of the merge pass's output and to at most one returned
\* Section; it belongs to no returned Section only when deduplication removed
\* its Section in favour of a returned Section with the same normalized name
\* and at least as many paragraphs.
C6_CoveredUpToDedup ==
    (SegDone /\ boundaries # <<>>) =>
        \A p \in 1..Len(paragraphs) :
            /\ Cardinality(Holders(merged_in, p)) = 1
            /\ Cardinality(Holders(sections, p)) <= 1
            /\ Holders(sections, p) = {} =>
                  \A i \in Holders(merged_in, p) :
                      \E j \in 1..Len(sections) :
                          /\ SameNormalizedName(sections[j], merged_in[i])
                          /\ Len(sections[j].paragraphs) >= Len(merged_in[i].paragraphs)

\* Deduplication removed a Section, and its paragraphs with it, while other
\* paragraphs are in a returned Section
C6_Witness ==
    /\ SegDone
    /\ boundaries # <<>>
    /\ \E p \in 1..Len(paragraphs) : Reviewable(p) /\ Holders(sections, p) = {}
    /\ \E p \in 1..Len(paragraphs) : Reviewable(p) /\ Cardinality(Holders(sections, p)) = 1

\* sec.paragraphs is a non-empty run of consecutive positions of the input
Contiguous(sec) ==
    /\ sec.paragraphs # <<>>
    /\ \A k \in 1..Len(sec.paragraphs) : sec.paragraphs[k] \in 1..Len(paragraphs)
    /\ \A k \in 1..(Len(sec.paragraphs) - 1) : sec.paragraphs[k + 1] = sec.paragraphs[k] + 1

\* C7: every returned Section holds a non-empty contiguous run of the input
\* in its original order, and no paragraph is in two returned Sections.
C7_ContiguousDisjoint ==
    SegDone =>
        /\ \A i \in 1..Len(sections) : Contiguous(sections[i])
        /\ \A p \in 1..Len(paragraphs) : Cardinality(Holders(sections, p)) <= 1

\* Two Sections are returned, one of them grown by the merge pass
C7_Witness ==
    /\ SegDone
    /\ Len(sections) >= 2
    /\ \E i \in 1..Len(sections) :
          /\ Contains(sections[i].name, NameSeparator)
          /\ Len(sections[i].paragraphs) >= 2

\* The caller's indices never decrease along the list
NonDecreasing(ps) ==
    \A i \in 1..Len(ps) : \A j \in i..Len(ps) : ps[i].index <= ps[j].index

\* C8 as stated: start_para_idx <= end_para_idx for every returned Section,
\* whatever indices the caller assigned.
C8_StartBeforeEnd ==
    SegDone =>
        \A i \in 1..Len(sections) :
            sections[i].start_para_idx <= sections[i].end_para_idx

\* C8, amended: start_para_idx <= end_para_idx for every returned Section
\* whenever the caller's indices never decrease along the list (they may
\* repeat and may have gaps).
C8_StartBeforeEndWhenOrdered ==
    (SegDone /\ NonDecreasing(paragraphs)) =>
        \A i \in 1..Len(sections) :
            sections[i].start_para_idx <= sections[i].end_para_idx

\* Indices with gaps: a returned Section spans more indices than paragraphs
C8_Witness ==
    /\ SegDone
    /\ NonDecreasing(paragraphs)
    /\ \E i \in 1..Len(sections) :
          sections[i].end_para_idx - sections[i].start_para_idx
              > Len(sections[i].paragraphs) - 1

\* The Sections of secs at the indices of K, in their order in secs
Pick(secs, K) ==
    [n \in 1..Cardinality(K) |->
        secs[CHOOSE i \in K : Cardinality({j \in K : j <= i}) = n]]

\* K keeps, of every group of Sections of secs with one non-empty normalized
\* name, exactly one Section, a largest one, and every Section whose
\* normalized name is empty
KeepsLargest(secs, K) ==
    \A i \in 1..Len(secs) :
        LET group == {j \in 1..Len(secs) : SameNormalizedName(secs[j], secs[i])}
        IN  IF _normalize_section_name(secs[i].name) = <<>>
            THEN i \in K
            ELSE /\ Cardinality(group \cap K) = 1
                 /\ i \in K =>
                       \A j \in group :
                           Len(secs[j].paragraphs) <= Len(secs[i].paragraphs)

\* C9: the list _deduplicate_sections returns has no two Sections with the
\* same non-empty normalized name; of each group of its input with one
\* normalized name a Section with the most paragraphs survives, and the
\* survivors keep their relative order.
C9_DedupKeepsLargest ==
    (SegDone /\ boundaries # <<>>) =>
        /\ \A i \in 1..Len(sections) : \A j \in (i + 1)..Len(sections) :
              _normalize_section_name(sections[i].name) # <<>> =>
                  ~SameNormalizedName(sections[i], sections[j])
        /\ \E K \in SUBSET (1..Len(merged_in)) :
              /\ sections = Pick(merged_in, K)
              /\ KeepsLargest(merged_in, K)

\* A later Section of a group was larger: the earlier one is removed
C9_Witness ==
    /\ SegDone
    /\ Len(sections) < Len(merged_in)
    /\ \E i \in 1..Len(merged_in) : \E j \in (i + 1)..Len(merged_in) :
          /\ SameNormalizedName(merged_in[i], merged_in[j])
          /\ Len(merged_in[j].paragraphs) > Len(merged_in[i].paragraphs)
          /\ \A k \in 1..Len(sections) : sections[k] # merged_in[i]

\* The paragraphs of secs[i..], concatenated
RECURSIVE ParagraphsFrom(_, _)
ParagraphsFrom(secs, i) ==
    IF i > Len(secs) THEN <<>>
    ELSE secs[i].paragraphs \o ParagraphsFrom(secs, i + 1)

\* C10: with no boundary in a non-empty list, the returned Sections are
\* consecutive chunks of 30 paragraphs, the last possibly shorter, each of
\* kind chapter and named by its ordinal, holding every input paragraph once
\* and in input order.
C10_FixedChunks ==
    (SegDone /\ paragraphs # <<>> /\ boundaries = <<>>) =>
        /\ ParagraphsFrom(sections, 1) = Positions(1, Len(paragraphs))
        /\ \A c \in 1..Len(sections) :
              /\ sections[c].section_type = "chapter"
              /\ sections[c].name = <<"u7b2c">> \o IntToStr(c) \o <<"u90e8", "u5206">>
              /\ Len(sections[c].paragraphs) \in 1..MaxParasPerBatch
              /\ c < Len(sections) => Len(sections[c].paragraphs) = MaxParasPerBatch

\* Two full chunks and a last chunk of one paragraph
C10_Witness ==
    /\ SegDone
    /\ boundaries = <<>>
    /\ Len(sections) = 3
    /\ Len(sections[2].paragraphs) = MaxParasPerBatch
    /\ Len(sections[3].paragraphs) = 1

-----------------------------------------------------------------------------
(* Properties of _stream_single_batch (SpecExtract) *)

\* The comment events of out, in order
Records(out) == SelectSeq(out, LAMBDA e : e.type = "comment")

\* The generator's outcome after the loop body left it in r and the stream ended
WholeOutcome(r, end) == [out |-> r.out \o end.out, raised |-> end.raised]

\* The generator's outcome when text arrives as one fragment
InOneFragment(r) == WholeOutcome(r, FinishStream(r.st))

\* _stream_single_batch has ended, by returning or by an exception
ExtractOver == ex_pc \in {"ended", "raised"}

\* C5: the comment events depend only on the concatenation of the fragments:
\* however the text is cut, they are those of the text sent as one fragment,
\* and a comments array holding one well-formed object yields exactly one
\* comment with that object's fields.
C5_SplitIndependent ==
    ExtractOver =>
        /\ Records(yielded) =
               Records(InOneFragment(ProcessChunk(FreshExtractor, stream_text)).out)
        /\ (ex_pc = "raised") =
               InOneFragment(ProcessChunk(FreshExtractor, stream_text)).raised
        /\ stream_text = TextOne =>
               Records(yielded) =
                   <<CommentEvent(ReviewComment(0, <<"a">>, <<"b">>, <<"e">>))>>

\* The one-object text in three fragments, the first cut inside the object
C5_Witness ==
    /\ ex_pc = "ended"
    /\ stream_text = TextOne
    /\ Len(yielded) = 4
    /\ \A k \in 1..3 : yielded[k].type = "text"
    /\ yielded[4].type = "comment"
    /\ Len(yielded[1].data) \in 7..30

-----------------------------------------------------------------------------
(* Properties of review_paragraphs_stream (SpecOrch) *)

\* The places in events of the events of kind ev yielded in iteration k
EventsWhere(ev, k) ==
    {x \in 1..Len(events) : events[x].event = ev /\ events[x].batch = k}

\* The places in events of the events of kind ev
EventsOf(ev) == {x \in 1..Len(events) : events[x].event = ev}

\* The places of the progress events whose current_batch is k
ProgressOf(k) == {x \in EventsOf("progress") : events[x].data.current_batch = k}

\* C1: a provider call or a stream that raises for eligible Section k yields
\* exactly one error event for k, and the loop goes on: every later eligible
\* Section gets its progress event and its provider call, and the request
\* ends with the done event.
C1_ErrorIsolated ==
    /\ \A k \in failed :
          /\ Cardinality(EventsWhere("error", k)) = 1
          /\ batch_idx > k
    /\ \A x \in EventsOf("error") :
          /\ events[x].batch \in failed
          /\ events[x].data = eligible[events[x].batch].name
    /\ pc = "finished" =>
          /\ events[Len(events)].event = "done"
          /\ \A k \in failed : \A j \in (k + 1)..Len(eligible) :
                /\ Cardinality(ProgressOf(j)) = 1
                /\ Len(calls) >= j
                /\ calls[j] = eligible[j]

\* Section 2 of 3 failed, Sections 1 and 3 did not, the request finished
C1_Witness ==
    /\ pc = "finished"
    /\ Len(eligible) = 3
    /\ failed = {2}
    /\ EventsWhere("comment", 1) # {}
    /\ EventsWhere("comment", 3) # {}

\* C2: a request that is not cancelled yields exactly one done event, as its
\* last event, and only after the loop has been through every eligible
\* Section.
C2_DoneOnceLast ==
    /\ Cardinality(EventsOf("done")) <= 1
    /\ EventsOf("done") # {} <=> pc = "finished"
    /\ pc = "finished" =>
          /\ EventsOf("done") = {Len(events)}
          /\ batch_idx = Len(eligible) + 1
          /\ Len(calls) = Len(eligible)
          /\ \A k \in 1..Len(eligible) :
                k \in failed \/ EventsWhere("error", k) = {}

\* A finished request with a failed first Section and a completed second one
C2_Witness ==
    /\ pc = "finished"
    /\ Len(eligible) >= 2
    /\ 1 \in failed
    /\ 2 \notin failed

\* C3: no Section of kind cover or toc reaches build_section_review_messages
\* or the provider.
C3_NoCoverOrTocReviewed ==
    \A k \in 1..Len(calls) : calls[k].section_type \notin {"cover", "toc"}

\* A document with a cover and a table of contents, a provider call made
C3_Witness ==
    /\ calls # <<>>
    /\ \E i \in 1..Len(all_sections) : all_sections[i].section_type = "cover"
    /\ \E i \in 1..Len(all_sections) : all_sections[i].section_type = "toc"

\* C4: progress events carry current_batch 0, 1, 2, ... in this order and one
\* total_batches, the number of eligible Sections; the progress event with 0
\* is the first event and is yielded once; every text, comment and error
\* event of Section i comes after the progress event of i and before that of
\* i + 1 and before the done event.
C4_DocumentOrder ==
    /\ pc \in {"loop", "section", "finished"} => events # <<>>
    /\ events # <<>> =>
          /\ events[1].event = "progress"
          /\ events[1].data.current_batch = 0
    /\ \A x \in EventsOf("progress") :
          /\ events[x].data.total_batches = Len(eligible)
          /\ events[x].data.current_batch =
                 Cardinality({y \in EventsOf("progress") : y < x})
          /\ events[x].data.current_batch <= Len(eligible)
    /\ pc = "finished" => Cardinality(EventsOf("progress")) = Len(eligible) + 1
    /\ \A x \in EventsOf("text") \cup EventsOf("comment") \cup EventsOf("error") :
          /\ events[x].batch \in 1..Len(eligible)
          /\ \E y \in ProgressOf(events[x].batch) : y < x
          /\ \A z \in EventsOf("progress") :
                events[z].data.current_batch > events[x].batch => z > x
          /\ \A z \in EventsOf("done") : z > x

\* Three Sections: a comment for the first, an error for the second, a
\* comment for the third
C4_Witness ==
    /\ pc = "finished"
    /\ Len(eligible) = 3
    /\ \E x \in EventsWhere("comment", 1) : \E y \in EventsWhere("error", 2) :
          \E z \in EventsWhere("comment", 3) : x < y /\ y < z

-----------------------------------------------------------------------------
(* Further properties of detect_sections (SpecSeg) *)

\* C11: on an empty paragraph list detect_sections returns the empty Section
\* list (it returns: the run reaches "done" in one step, nothing is scanned).
C11_EmptyInEmptyOut ==
    /\ (SegDone /\ paragraphs = <<>>) =>
          /\ sections = <<>>
          /\ boundaries = <<>>
          /\ pos = 1
    /\ detect_sections(<<>>) = <<>>
    /\ (seg_pc = "scan" /\ paragraphs = <<>>) => ENABLED ReturnEmpty

\* detect_sections has returned on the empty list
C11_Witness == SegDone /\ paragraphs = <<>> /\ sections = <<>>

\* The text the rule loop sees for the paragraph at position p
CleanText(p) == Strip(RemoveCtrl(Strip(paragraphs[p].text)))

\* The paragraph at position p matches a chapter rule, is longer than 60
\* characters and contains a full stop
LongChapterSentence(p) ==
    /\ \E r \in 1..NumPatterns : PatternType(r) = "chapter" /\ PatternMatches(r, CleanText(p))
    /\ Len(CleanText(p)) > HeadingMaxLen
    /\ \E k \in 1..Len(CleanText(p)) : CleanText(p)[k] = "u3002"

\* C12 as stated: a paragraph that matches a chapter rule, is longer than 60
\* characters and contains a full stop is never a boundary, and no returned
\* Section starts at it.
C12_NoSectionStartsThere ==
    /\ \A b \in 1..Len(boundaries) : ~LongChapterSentence(boundaries[b][1])
    /\ SegDone =>
          \A p \in 1..Len(paragraphs) :
              LongChapterSentence(p) =>
                  \A i \in 1..Len(sections) : sections[i].paragraphs[1] # p

\* C12, amended: such a paragraph is never recorded as a boundary and no
\* returned Section is named after it; a returned Section starts at it only
\* as the cover Section or, when no boundary was found at all, as a
\* fixed-size chunk.
C12_NeverABoundary ==
    /\ \A b \in 1..Len(boundaries) : ~LongChapterSentence(boundaries[b][1])
    /\ SegDone =>
          \A p \in 1..Len(paragraphs) :
              LongChapterSentence(p) =>
                  \A i \in 1..Len(sections) :
                      /\ ~Contains(sections[i].name, CleanText(p))
                      /\ sections[i].paragraphs[1] = p =>
                            \/ sections[i].section_type = "cover"
                            \/ boundaries = <<>>

\* Such a sentence follows a heading and is followed by one: it stays inside
\* the first heading's Section
C12_Witness ==
    /\ SegDone
    /\ Len(boundaries) >= 2
    /\ \E p \in 2..Len(paragraphs) :
          /\ LongChapterSentence(p)
          /\ boundaries[1][1] < p
          /\ boundaries[2][1] > p
\* secs[i] has fewer than MinParagraphs paragraphs and the kind of the
\* Section right before it
SmallSameKind(secs, i) ==
    /\ i > 1
    /\ Len(secs[i].paragraphs) < MinParagraphs
    /\ secs[i].section_type = secs[i - 1].section_type

\* The Sections of secs that are not merged into their predecessor
Heads(secs) == {i \in 1..Len(secs) : ~SmallSameKind(secs, i)}

\* The j-th of them
HeadAt(secs, j) ==
    CHOOSE h \in Heads(secs) : Cardinality({g \in Heads(secs) : g <= h}) = j

\* The last Section merged into the j-th of them
GroupEnd(secs, j) ==
    IF j < Cardinality(Heads(secs)) THEN HeadAt(secs, j + 1) - 1 ELSE Len(secs)

\* The paragraphs of secs[a..b], one Section after the other
RECURSIVE ParagraphsOfRange(_, _, _)
ParagraphsOfRange(secs, a, b) ==
    IF a > b THEN <<>>
    ELSE secs[a].paragraphs \o ParagraphsOfRange(secs, a + 1, b)

\* out is secs with exactly the Sections of SmallSameKind merged into the
\* Section before them
MergedExactly(secs, out) ==
    /\ Len(out) = Cardinality(Heads(secs))
    /\ \A j \in 1..Len(out) :
          /\ out[j].section_type = secs[HeadAt(secs, j)].section_type
          /\ out[j].start_para_idx = secs[HeadAt(secs, j)].start_para_idx
          /\ out[j].end_para_idx = secs[GroupEnd(secs, j)].end_para_idx
          /\ out[j].paragraphs =
                 ParagraphsOfRange(secs, HeadAt(secs, j), GroupEnd(secs, j))

\* Every small Section of out is the first or follows a Section of another kind
SmallOnlyAfterOtherKind(out) ==
    \A j \in 1..Len(out) :
        Len(out[j].paragraphs) < MinParagraphs =>
            (j = 1 \/ out[j - 1].section_type # out[j].section_type)

\* C25: the merge pass merges a Section into the one right before it exactly
\* when it has fewer than 3 paragraphs and the two have the same kind; so in
\* its output a Section with fewer than 3 paragraphs is the first one or
\* follows a Section of another kind.
C25_MergeIffSmallSameKind ==
    [][seg_pc = "merge" =>
          /\ MergedExactly(sections, sections')
          /\ SmallOnlyAfterOtherKind(sections')]_vars

\* C25 witness: the merge pass has merged one Section into its predecessor and
\* has left a Section of fewer than 3 paragraphs behind a Section of another
\* kind
C25_Witness ==
    /\ seg_pc = "dedup"
    /\ \E i \in 1..Len(sections) : Contains(sections[i].name, NameSeparator)
    /\ \E j \in 2..Len(sections) :
          /\ Len(sections[j].paragraphs) < MinParagraphs
          /\ sections[j - 1].section_type # sections[j].section_type

\* The Sections of the group G of secs with the most paragraphs
Largest(secs, G) ==
    {j \in G : \A k \in G : Len(secs[k].paragraphs) <= Len(secs[j].paragraphs)}

\* The smallest index of T
First(T) == CHOOSE f \in T : \A j \in T : f <= j

\* secs[i] is one of the Sections of out
Survives(secs, i, out) == \E k \in 1..Len(out) : out[k] = secs[i]

\* Of the group G of secs, whose largest Sections tie, only the first of the
\* largest is in out
FirstOfTieWins(secs, G, out) ==
    Cardinality(Largest(secs, G)) >= 2 =>
        \A j \in G : Survives(secs, j, out) <=> j = First(Largest(secs, G))

\* C26: when several Sections with one non-empty normalized name tie on the
\* largest paragraph count, _deduplicate_sections keeps the earliest of them
\* in the list and removes every other Section of the group.
C26_FirstOfTieSurvives ==
    (SegDone /\ boundaries # <<>>) =>
        \A i \in 1..Len(merged_in) :
            _normalize_section_name(merged_in[i].name) # <<>> =>
                FirstOfTieWins(merged_in,
                               NameGroup(merged_in, _normalize_section_name(merged_in[i].name)),
                               sections)

\* C26 witness: two Sections with one normalized name and equally many
\* paragraphs went into deduplication; the earlier one came out, the later
\* one did not
C26_Witness ==
    /\ SegDone
    /\ \E i \in 1..Len(merged_in) : \E j \in (i + 1)..Len(merged_in) :
          /\ _normalize_section_name(merged_in[i].name) # <<>>
          /\ SameNormalizedName(merged_in[i], merged_in[j])
          /\ Len(merged_in[i].paragraphs) = Len(merged_in[j].paragraphs)
          /\ Survives(merged_in, i, sections)
          /\ ~Survives(merged_in, j, sections)

\* The last position of the paragraphs that follow boundary i up to the next
\* boundary
SpanEnd(i) ==
    IF i < Len(boundaries) THEN boundaries[i + 1][1] - 1 ELSE Len(paragraphs)

SpanSize(i) == SpanEnd(i) - boundaries[i][1] + 1

\* Boundaries i and j record the same heading, i with fewer paragraphs after it
SmallerTwin(i, j) ==
    /\ i < j
    /\ _normalize_section_name(boundaries[i][2]) # <<>>
    /\ _normalize_section_name(boundaries[i][2]) =
           _normalize_section_name(boundaries[j][2])
    /\ SpanSize(i) < SpanSize(j)

\* No paragraph of boundary i's span is in a returned Section
SpanGone(i) ==
    \A p \in boundaries[i][1]..SpanEnd(i) : Holders(sections, p) = {}

\* C27 as stated: when a heading is recorded as a boundary twice, first with
\* fewer paragraphs after it and later with more, no paragraph of the smaller
\* occurrence is in a Section that detect_sections returns.
C27_SmallerOccurrenceGone ==
    SegDone =>
        \A i \in 1..Len(boundaries) : \A j \in 1..Len(boundaries) :
            SmallerTwin(i, j) => SpanGone(i)

\* C27 witness: a heading recorded twice, the first time alone and the second
\* time with two paragraphs after it; only the second occurrence is returned
C27_Witness ==
    /\ SegDone
    /\ Len(boundaries) = 2
    /\ SmallerTwin(1, 2)
    /\ SpanSize(2) = 3
    /\ SpanGone(1)
    /\ \A p \in boundaries[2][1]..SpanEnd(2) : Holders(sections, p) # {}

\* The texts the scan sees of the paragraph at position p
RawTextAt(p) == Strip(paragraphs[p].text)

CleanTextAt(p) == Strip(RemoveCtrl(RawTextAt(p)))

\* The scan passes over the paragraph: nothing is left of its text
IsBlankAt(p) == RawTextAt(p) = <<>> \/ CleanTextAt(p) = <<>>

IsTocHeadingAt(p) == LitWsLit(CleanTextAt(p), "u76ee", "u5f55")

IsTocEntryAt(p) == _is_toc_entry(RawTextAt(p))

\* What one iteration does to the flag and the boundaries, by the kind of
\* the paragraph at position p
FlagFollowsRegion(p, flag, flagAfter, bnds, bndsAfter) ==
    IF IsBlankAt(p)
    THEN flagAfter = flag /\ bndsAfter = bnds
    ELSE IF IsTocHeadingAt(p)
    THEN flagAfter /\ bndsAfter = Append(bnds, <<p, CleanTextAt(p), "toc">>)
    ELSE IF IsTocEntryAt(p)
    THEN flagAfter = flag /\ bndsAfter = bnds
    ELSE ~flagAfter /\ bndsAfter = MatchRules(bnds, p, CleanTextAt(p))

\* C28: in the boundary scan of detect_sections the flag in_toc is false at
\* the first paragraph; an iteration sets it exactly at a TOC heading, which
\* it records as a toc boundary; the flag stays as it is over blank
\* paragraphs and TOC entries; the first other paragraph clears it and is
\* itself tried against the heading rules, so it can become a boundary.
C28_TocFlagFollowsRegion ==
    [][seg_pc = "scan" /\ pos' = pos + 1 =>
          /\ pos = 1 => ~in_toc
          /\ in_toc' /\ ~in_toc => IsTocHeadingAt(pos)
          /\ FlagFollowsRegion(pos, in_toc, in_toc', boundaries, boundaries')]_vars

\* A TOC heading, a TOC entry and a heading have been scanned: the flag is
\* off again and the heading that ended the region is a boundary
C28_Witness ==
    /\ seg_pc = "scan"
    /\ pos = 4
    /\ IsTocHeadingAt(1)
    /\ IsTocEntryAt(2) /\ ~IsBlankAt(2)
    /\ ~IsTocEntryAt(3) /\ ~IsBlankAt(3) /\ ~IsTocHeadingAt(3)
    /\ ~in_toc
    /\ Len(boundaries) = 2
    /\ boundaries[1][1] = 1 /\ boundaries[1][3] = "toc"
    /\ boundaries[2][1] = 3

\* C29 as stated: a paragraph whose raw text meets the TOC-entry heuristics
\* is never recorded as a boundary by detect_sections, inside or outside a
\* TOC region: no boundary stands at such a paragraph, and no Section that a
\* boundary opened begins with one.
C29_TocEntryNeverBoundary ==
    /\ \A k \in 1..Len(boundaries) : ~IsTocEntryAt(boundaries[k][1])
    /\ seg_pc = "merge" =>
          \A i \in 1..Len(sections) :
              sections[i].section_type # "cover" => ~IsTocEntryAt(sections[i].paragraphs[1])

\* C29: a paragraph whose raw text meets the TOC-entry heuristics is recorded
\* as a boundary by detect_sections only if its cleaned text is the TOC
\* heading, and then as a toc boundary; any other such paragraph, inside or
\* outside a TOC region, is no boundary and opens no Section.
C29_TocEntryBoundaryOnlyAsTocHeading ==
    /\ \A k \in 1..Len(boundaries) :
          IsTocEntryAt(boundaries[k][1]) =>
              IsTocHeadingAt(boundaries[k][1]) /\ boundaries[k][3] = "toc"
    /\ seg_pc = "merge" =>
          \A i \in 1..Len(sections) :
              sections[i].section_type # "cover" /\ IsTocEntryAt(sections[i].paragraphs[1]) =>
                  IsTocHeadingAt(sections[i].paragraphs[1]) /\ sections[i].section_type = "toc"

\* A TOC entry outside a TOC region, a TOC heading that holds a field
\* character, and a TOC entry inside the region have been scanned: the
\* heading is the only boundary
C29_Witness ==
    /\ seg_pc = "scan"
    /\ pos = 4
    /\ IsTocEntryAt(1) /\ ~IsTocHeadingAt(1)
    /\ IsTocEntryAt(2) /\ IsTocHeadingAt(2)
    /\ IsTocEntryAt(3) /\ ~IsTocHeadingAt(3)
    /\ in_toc
    /\ boundaries = <<(<<2, CleanTextAt(2), "toc">>)>>
\* The paragraph at position p is neither passed over nor a TOC heading nor a
\* TOC entry: the scan tries the heading rules on it
ReachesRules(p) == ~IsBlankAt(p) /\ ~IsTocHeadingAt(p) /\ ~IsTocEntryAt(p)

\* The match of rule r on the text is recorded
Accepted(r, clean_text) ==
    /\ PatternMatches(r, clean_text)
    /\ PatternType(r) = "chapter" => _is_heading_paragraph(clean_text)

\* The first rule whose match on the text is recorded, 0 when there is none
FirstAccepted(clean_text) ==
    LET hits == {r \in 1..NumPatterns : Accepted(r, clean_text)}
    IN  IF hits = {} THEN 0 ELSE CHOOSE r \in hits : \A q \in hits : r <= q

\* The first rule that matches is of kind chapter and its match is rejected
RejectedAt(p) ==
    /\ ReachesRules(p)
    /\ FirstMatch(CleanTextAt(p)) # 0
    /\ ~Accepted(FirstMatch(CleanTextAt(p)), CleanTextAt(p))

BoundariesAt(p) == {k \in 1..Len(boundaries) : boundaries[k][1] = p}

\* The paragraph at position p has no boundary when rule r is 0, and else one
\* boundary, of the kind of rule r
OneBoundaryFrom(p, r) ==
    IF r = 0 THEN BoundariesAt(p) = {}
    ELSE /\ Cardinality(BoundariesAt(p)) = 1
         /\ \A k \in BoundariesAt(p) : boundaries[k] = <<p, CleanTextAt(p), PatternType(r)>>

\* C30 as stated: when a chapter rule matches a paragraph and the text fails
\* the heading test, the rules after it are still tried on the paragraph;
\* the paragraph has at most one boundary, from the first rule whose match is
\* accepted.
C30_RemainingRulesTried ==
    \A p \in 1..(pos - 1) :
        /\ RejectedAt(p) =>
              (FirstMatch(CleanTextAt(p)) + 1)..NumPatterns \subseteq RulesTried(CleanTextAt(p))
        /\ ReachesRules(p) => OneBoundaryFrom(p, FirstAccepted(CleanTextAt(p)))

\* C30: the rule loop ends at the first rule that matches a paragraph.  When
\* that rule is of kind chapter and the text fails the heading test, the
\* match is rejected, no rule after it is tried and the paragraph has no
\* boundary; else the paragraph has exactly one boundary, from that rule.  The
\* outcome is the one trying the remaining rules would give: at most one
\* boundary, from the first rule whose match is accepted.
C30_LoopEndsAtFirstMatch ==
    \A p \in 1..(pos - 1) :
        ReachesRules(p) =>
            LET r == FirstMatch(CleanTextAt(p))
            IN  /\ RulesTried(CleanTextAt(p)) = 1..(IF r = 0 THEN NumPatterns ELSE r)
                /\ RejectedAt(p) => BoundariesAt(p) = {}
                /\ ~RejectedAt(p) => OneBoundaryFrom(p, r)
                /\ OneBoundaryFrom(p, FirstAccepted(CleanTextAt(p)))

\* A sentence that begins like a chapter heading has been scanned and left no
\* boundary; a heading that two rules match has been recorded once
C30_Witness ==
    /\ seg_pc = "scan"
    /\ pos = 3
    /\ RejectedAt(1)
    /\ ReachesRules(2)
    /\ Cardinality({r \in 1..NumPatterns : Accepted(r, CleanTextAt(2))}) = 2
    /\ boundaries = <<(<<2, CleanTextAt(2), "chapter">>)>>


-----------------------------------------------------------------------------
(* Further properties of review_paragraphs_stream (SpecOrch) *)

\* The provider call of the current iteration is in progress: requested, or
\* answered and still streaming
CallInProgress == ex_pc \in {"requesting", "streaming"}

\* C13: Sections are processed one after the other: the request for the next
\* Section starts only after the stream of the current one was drained or
\* failed, so at most one provider call is in progress.
C13_OneCallAtATime ==
    /\ pc = "section" =>
          /\ Len(calls) = batch_idx
          /\ CallInProgress
    /\ pc = "loop" =>
          /\ Len(calls) = batch_idx - 1
          /\ ~CallInProgress
          /\ calls # <<>> => ex_pc \in {"ended", "raised"}
    /\ pc = "finished" => ~CallInProgress
    /\ Cardinality({k \in 1..Len(calls) : k >= batch_idx}) <= 1

\* The second Section's call is streaming after the first one's stream was
\* drained
C13_Witness ==
    /\ pc = "section"
    /\ batch_idx = 2
    /\ Len(calls) = 2
    /\ ex_pc = "streaming"
    /\ nchunks >= 1
    /\ failed = {}

\* C14: when the consumer cancels the request at a suspension point the
\* iteration stops there: the cancellation itself yields no event and starts
\* no provider call, nothing is yielded or started afterwards, and the events
\* yielded before stay as they are.
C14_CancelStops ==
    [][(pc' = "cancelled") => (events' = events /\ calls' = calls)]_vars

\* Cancelled while the stream of the first of several Sections was being
\* drained, a comment already yielded: the later Sections are never requested
C14_Witness ==
    /\ pc = "cancelled"
    /\ ex_pc = "streaming"
    /\ batch_idx = 1
    /\ Len(eligible) >= 2
    /\ Len(calls) = 1
    /\ EventsWhere("comment", 1) # {}
    /\ EventsOf("done") = {}

-----------------------------------------------------------------------------
(* Further properties of _stream_single_batch (SpecExtract) *)

\* C15 as stated: every comment yielded, by the scan or by the whole-buffer
\* parse, has a severity that is one of error, warning, suggestion.
C15_SeverityInEnum ==
    \A k \in 1..Len(yielded) :
        yielded[k].type = "comment" =>
            yielded[k].data.severity \in {SevError, SevWarning, SevSuggestion}

\* The scan is about to drop a slice: buffer[i] closes the open object of
\* depth 1 and the slice is not a valid record
IsDrop(st, i) ==
    /\ st.in_comments_array
    /\ st.buffer[i + 1] = "}"
    /\ st.brace_depth = 1
    /\ st.current_object_start >= 0
    /\ ~try_extract_single_comment(
            Slice(st.buffer, st.current_object_start + 1, i + 1)).ok

RECURSIVE DropsFrom(_, _, _)
DropsFrom(st, i, acc) ==
    IF i >= Len(st.buffer) THEN acc
    ELSE DropsFrom(ScanChar(st, i).st, i + 1,
                   IF IsDrop(st, i) THEN acc \cup {i + 1} ELSE acc)

\* The positions of text (from 1) at which the scan drops a slice
Drops(text) == DropsFrom([FreshExtractor EXCEPT !.buffer = text], 0, {})

\* The comment events yielded so far
YieldedComments ==
    {yielded[n].data : n \in {m \in 1..Len(yielded) : yielded[m].type = "comment"}}

\* The number of comment events yielded so far
NumYieldedComments ==
    Cardinality({m \in 1..Len(yielded) : yielded[m].type = "comment"})

InYielded(r) == r.ok => r.comment \in YieldedComments

\* If the slice of text from j to k is a valid record, it has been yielded
SliceYielded(text, j, k) == InYielded(try_extract_single_comment(Slice(text, j, k)))

\* The first closing brace of text at or after j, 0 if none
RECURSIVE FirstClose(_, _)
FirstClose(text, j) ==
    IF j > Len(text) THEN 0
    ELSE IF text[j] = "}" THEN j ELSE FirstClose(text, j + 1)

\* An object without inner braces starts right after the comma at d + 1
DirectlyFollows(text, d) ==
    /\ d + 2 <= Len(text)
    /\ text[d + 1] = ","
    /\ text[d + 2] = "{"
    /\ FirstClose(text, d + 3) > 0
    /\ \A n \in (d + 3)..FirstClose(text, d + 3) : text[n] # "{"

\* The last character received made the scan drop a slice
JustDropped == buffer # <<>> /\ Len(buffer) \in Drops(buffer)

\* What does hold of a drop (C16): the chunk whose last character makes the
\* scan drop a slice raises nothing and yields no comment for it, and leaves the scanner inside
\* the array with depth 0 and no open object; when the stream has ended, an
\* object without inner braces that starts right after the dropped slice and
\* is a valid record has been yielded.
C16_DropKeepsScanning ==
    /\ JustDropped =>
          /\ ex_pc # "raised"
          /\ in_comments_array
          /\ brace_depth = 0
          /\ current_object_start = -1
          /\ NumYieldedComments = emitted_count
    /\ ex_pc = "ended" =>
          \A d \in Drops(stream_text) :
              DirectlyFollows(stream_text, d) =>
                  SliceYielded(stream_text, d + 2, FirstClose(stream_text, d + 3))

\* C16 witness: the first object of TextDropThenKeep was dropped, the second
\* one yielded, and the stream ended
C16_Witness ==
    /\ ex_pc = "ended"
    /\ stream_text = TextDropThenKeep
    /\ Drops(stream_text) = {15}
    /\ DirectlyFollows(stream_text, 15)
    /\ YieldedComments = {ReviewComment(0, <<"d">>, <<"b">>, SevSuggestion)}

\* C16 as stated: the drop leaves the scanner inside the array with depth 0
\* and no open object, and every well-formed object that follows a dropped
\* slice has been yielded when the stream has ended.
C16_FollowingObjectEmitted ==
    /\ JustDropped =>
          /\ ex_pc # "raised"
          /\ in_comments_array
          /\ brace_depth = 0
          /\ current_object_start = -1
    /\ ex_pc = "ended" =>
          \A d \in Drops(stream_text) :
              \A j \in (d + 1)..Len(stream_text) : \A k \in j..Len(stream_text) :
                  (stream_text[j] = "{" /\ stream_text[k] = "}") =>
                      SliceYielded(stream_text, j, k)
\* The data of the text events of out, one after the other
RECURSIVE TextOf(_)
TextOf(out) ==
    IF out = <<>> THEN <<>>
    ELSE (IF Head(out).type = "text" THEN Head(out).data ELSE <<>>) \o TextOf(Tail(out))

\* C19: a chunk with empty content yields nothing; a chunk with content yields
\* first one text event that carries the content verbatim and then only the
\* comments of the objects that close in it; the text events yielded so far,
\* put end to end, are the buffer.
C19_TextPerFragment ==
    [][(ex_pc = "streaming" /\ nchunks' = nchunks + 1) =>
          /\ SubSeq(yielded', 1, Len(yielded)) = yielded
          /\ delivered' = delivered => yielded' = yielded
          /\ delivered' > delivered =>
                /\ Len(yielded') > Len(yielded)
                /\ yielded'[Len(yielded) + 1] =
                       TextEvent(Slice(stream_text, delivered + 1, delivered'))
                /\ \A k \in (Len(yielded) + 2)..Len(yielded') :
                       yielded'[k].type = "comment"
          /\ TextOf(yielded') = buffer']_vars

\* C19 witness: two chunks with content have come, the second one closed an
\* object, and its text event stands right before the comment
C19_Witness ==
    /\ ex_pc = "streaming"
    /\ Len(yielded) = 3
    /\ yielded[1].type = "text"
    /\ yielded[2].type = "text"
    /\ yielded[3].type = "comment"
    /\ yielded[1].data \o yielded[2].data = buffer
    /\ buffer[Len(buffer)] = "}"

\* The comment events of yielded, in order
YieldedCommentSeq == SelectSeq(yielded, LAMBDA e : e.type = "comment")

\* The comments of r as comment events
AsCommentEvents(r) == [k \in 1..Len(r.comments) |-> CommentEvent(r.comments[k])]

\* C20: while chunks are still coming only the scan yields comments; the
\* whole-buffer parse adds its comments at the end of the stream, when the
\* buffer holds the whole response text, and only if the scan has yielded
\* none; so no object is yielded twice: the comments yielded are either those
\* counted by the scan or those of the one whole-buffer parse, and they are
\* pairwise different.
C20_FallbackOnlyIfNone ==
    /\ ex_pc = "streaming" => NumYieldedComments = emitted_count
    /\ ex_pc = "ended" =>
          /\ buffer = stream_text
          /\ emitted_count > 0 => NumYieldedComments = emitted_count
          /\ emitted_count = 0 =>
                YieldedCommentSeq = AsCommentEvents(extract_comments_from_json(buffer))
    /\ \A m, n \in 1..Len(YieldedCommentSeq) :
          m # n => YieldedCommentSeq[m] # YieldedCommentSeq[n]

\* C20 witness: the scan has yielded a comment, the stream has ended, and the
\* whole-buffer parse, which would have found comments, has added none
C20_Witness ==
    /\ ex_pc = "ended"
    /\ emitted_count = 2
    /\ NumYieldedComments = 2
    /\ Len(extract_comments_from_json(buffer).comments) = 2

RECURSIVE DropSlicesFrom(_, _, _)
DropSlicesFrom(st, i, acc) ==
    IF i >= Len(st.buffer) THEN acc
    ELSE DropSlicesFrom(ScanChar(st, i).st, i + 1,
                        IF IsDrop(st, i)
                        THEN acc \cup {<<st.current_object_start + 1, i + 1>>}
                        ELSE acc)

\* The slices of text (first and last position, from 1) that the scan drops
DropSlices(text) == DropSlicesFrom([FreshExtractor EXCEPT !.buffer = text], 0, {})

\* No comment has been yielded for the JSON object r
ObjectNotYielded(r) ==
    (r.ok /\ r.val.t = "obj") => ~MakeComment(r.val).ok
                                 \/ MakeComment(r.val).comment \notin YieldedComments

\* C21 as stated: when the stream has ended, no comment has been yielded for
\* an object whose candidate slice the scan dropped (the object that starts
\* where the dropped slice starts).
C21_DroppedStaysDropped ==
    ex_pc = "ended" =>
        \A sl \in DropSlices(stream_text) :
            \A k \in sl[2]..Len(stream_text) :
                stream_text[k] = "}" =>
                    ObjectNotYielded(JsonLoads(Slice(stream_text, sl[1], k)))

\* C21 witness: the scan dropped the first object of TextDropThenKeep and the
\* stream ended without a comment for it
C21_Witness ==
    /\ ex_pc = "ended"
    /\ stream_text = TextDropThenKeep
    /\ DropSlices(stream_text) = {<<7, 15>>}
    /\ \A n \in 1..Len(yielded) :
          yielded[n].type = "comment" => yielded[n].data.target_text # <<"a">>

\* A chunk of the one character c arrives while the scanner is inside the array
OneCharInArray(c) ==
    /\ ex_pc = "streaming"
    /\ in_comments_array
    /\ buffer' = Append(buffer, c)

\* C22 as stated: inside the array, a closing bracket met while an object is
\* open leaves the scanner inside the array, and the scanner leaves the array
\* only on a closing bracket met at depth 0.
C22_BracketEndsArrayAtDepthZero ==
    [][/\ (OneCharInArray("]") /\ brace_depth > 0) => in_comments_array'
       /\ \A c \in {stream_text[k] : k \in 1..Len(stream_text)} :
             (OneCharInArray(c) /\ ~in_comments_array') =>
                 (c = "]" /\ brace_depth = 0)]_vars

\* C22 witness: the closing bracket of the array came at depth 0, after a
\* comment was yielded, and the scanner has left the array
C22_Witness ==
    /\ ex_pc = "streaming"
    /\ buffer # <<>>
    /\ buffer[Len(buffer)] = "]"
    /\ brace_depth = 0
    /\ emitted_count = 1
    /\ ~in_comments_array

\* buffer[i] closes the open object of depth 1: the scan hands a slice to
\* try_extract_single_comment
IsClose(st, i) ==
    /\ st.in_comments_array
    /\ st.buffer[i + 1] = "}"
    /\ st.brace_depth = 1
    /\ st.current_object_start >= 0

RECURSIVE CandidateSlicesFrom(_, _, _)
CandidateSlicesFrom(st, i, acc) ==
    IF i >= Len(st.buffer) THEN acc
    ELSE CandidateSlicesFrom(ScanChar(st, i).st, i + 1,
                             IF IsClose(st, i)
                             THEN acc \cup {<<st.current_object_start + 1, i + 1>>}
                             ELSE acc)

\* The slices of text (first and last position, from 1) that the scan hands
\* to try_extract_single_comment
CandidateSlices(text) ==
    CandidateSlicesFrom([FreshExtractor EXCEPT !.buffer = text], 0, {})

\* How many of the characters of text from a to b are c
CountChar(text, a, b, c) == Cardinality({k \in a..b : text[k] = c})

\* C23 as stated: every slice the scan has handed to the record parser starts
\* at an opening brace, ends at a closing brace and holds as many opening as
\* closing braces.
C23_SlicesBalanced ==
    \A sl \in CandidateSlices(buffer) :
        /\ buffer[sl[1]] = "{"
        /\ buffer[sl[2]] = "}"
        /\ CountChar(buffer, sl[1], sl[2], "{") = CountChar(buffer, sl[1], sl[2], "}")

\* C23 witness: the scan has handed the two objects of TextTwo to the record
\* parser, each a balanced slice
C23_Witness ==
    /\ stream_text = TextTwo
    /\ Cardinality(CandidateSlices(buffer)) = 2
    /\ emitted_count = 2
    /\ C23_SlicesBalanced

\* The comments of the elements of the field's array, r the outcome of
\* json.loads on a text that is a JSON object
FieldArrayComments(r) ==
    {CommentsOfLoaded(r).comments[k] : k \in 1..Len(CommentsOfLoaded(r).comments)}

ScanWithin(r) ==
    (r.ok /\ r.val.t = "obj") => YieldedComments \subseteq FieldArrayComments(r)

\* C24 as stated: when the response text is a JSON object, every comment the
\* scan has yielded is the comment of an element of the field's array.
C24_OnlyFieldArray ==
    (ex_pc = "ended" /\ emitted_count > 0) => ScanWithin(JsonLoads(buffer))

\* C24 witness: in TextOne, where the only array is the field's, the scan has
\* yielded the comment of its element
C24_Witness ==
    /\ ex_pc = "ended"
    /\ stream_text = TextOne
    /\ emitted_count = 1
    /\ YieldedComments = FieldArrayComments(JsonLoads(buffer))


-----------------------------------------------------------------------------
(* Failures and termination of review_paragraphs_stream *)

\* C17 as stated: when the stream of a Section ends and neither the scan nor
\* the whole-buffer parse has yielded a comment, the step that ends the stream
\* adds no error event and does not count the Section as failed, whatever the
\* buffer holds.
C17_NoErrorWithoutRecords ==
    [][(StreamEnds /\ emitted_count = 0 /\ yielded' = yielded) =>
          /\ failed' = failed
          /\ \A k \in (Len(events) + 1)..Len(events') : events'[k].event # "error"]_vars

\* C17 witness: a stream ended with no comment yielded and no error event
C17_Witness ==
    /\ pc = "loop"
    /\ ex_pc = "ended"
    /\ emitted_count = 0
    /\ NumYieldedComments = 0
    /\ batch_idx - 1 \notin failed
    /\ EventsWhere("error", batch_idx - 1) = {}

\* C18: if the request is never cancelled, review_paragraphs_stream reaches
\* its finished state with the done event as its last event, whichever
\* Sections failed (every provider call and stream is assumed to come to an
\* end: the fairness of SpecOrchLive).
C18_EventuallyDone ==
    [](pc # "cancelled") =>
        <>(pc = "finished" /\ events # <<>> /\ events[Len(events)].event = "done")

\* C18 witness: a request of two Sections, both failed, has finished with the
\* done event
C18_Witness ==
    /\ pc = "finished"
    /\ total_batches = 2
    /\ failed = {1, 2}
    /\ events[Len(events)].event = "done"

-----------------------------------------------------------------------------
(* No retry, isolation of Sections, requests without eligible Sections *)

\* The provider calls made for eligible Section k
CallsFor(k) == {j \in 1..Len(calls) : calls[j] = eligible[k]}

\* C31: there is no retry: in one request the provider is called at most once
\* for each eligible Section, every call is for an eligible Section, a
\* Section that failed has had its one call, and a request that finished
\* (was not cancelled) has called the provider exactly once for each.
C31_NoRetry ==
    /\ \A k \in 1..Len(eligible) : Cardinality(CallsFor(k)) <= 1
    /\ \A j \in 1..Len(calls) : j <= Len(eligible) /\ calls[j] = eligible[j]
    /\ \A k \in failed : Cardinality(CallsFor(k)) = 1
    /\ pc = "finished" => \A k \in 1..Len(eligible) : Cardinality(CallsFor(k)) = 1

\* A finished request of three Sections, the first and the last of them
\* failed: three provider calls
C31_Witness ==
    /\ pc = "finished"
    /\ Len(eligible) = 3
    /\ failed = {1, 3}
    /\ Len(calls) = 3

\* The text and comment events yielded in iteration k, as the tuples of
\* _stream_single_batch
SectionTuples(k) ==
    LET mine == SelectSeq(events, LAMBDA e : e.batch = k /\ e.event \in {"text", "comment"})
    IN  [x \in 1..Len(mine) |-> [type |-> mine[x].event, data |-> mine[x].data]]

\* The fragments the provider sent for Section k: the data of its text events
FragmentsOf(k) ==
    LET texts == SelectSeq(events, LAMBDA e : e.batch = k /\ e.event = "text")
    IN  [x \in 1..Len(texts) |-> texts[x].data]

RECURSIVE ReplayFrom(_, _, _)
ReplayFrom(r, frags, i) ==
    IF i > Len(frags) THEN r
    ELSE ReplayFrom(Yield(r.out, ProcessChunk(r.st, frags[i])), frags, i + 1)

\* The scan of the fragments frags and nothing else, from the initial values
\* of the locals: the state it ends in and the tuples it yields
Replay(frags) == ReplayFrom([st |-> FreshExtractor, out |-> <<>>], frags, 1)

\* What Section k has yielded is what its own fragments give, r their replay
OwnFragmentsOnly(k, r) ==
    IF k = batch_idx /\ ex_pc = "requesting"
    THEN SectionTuples(k) = <<>>
    ELSE IF k = batch_idx /\ ex_pc = "streaming"
    THEN ExState = r.st /\ SectionTuples(k) = r.out /\ yielded = r.out
    ELSE IF k \in failed
    THEN SectionTuples(k) = r.out
    ELSE SectionTuples(k) = r.out \o FinishStream(r.st).out

\* C32: extraction state does not cross Section boundaries: the buffer, the
\* flag, the brace depth, the open-object offset and the count of emitted
\* comments of a Section are those of a scan of that Section's fragments from
\* fresh values, and the text and comment events of a Section are what its own
\* fragments give, whatever the stream of the Section before it left behind.
C32_SectionsIsolated ==
    \A k \in 1..Len(calls) : OwnFragmentsOnly(k, Replay(FragmentsOf(k)))

\* The first Section failed inside an open object; the second has received
\* what would complete that object and has yielded no comment
C32_Witness ==
    /\ pc = "section"
    /\ batch_idx = 2
    /\ ex_pc = "streaming"
    /\ failed = {1}
    /\ FragmentsOf(1) = <<FragOpen>>
    /\ FragmentsOf(2) = <<FragClose>>
    /\ EventsWhere("comment", 2) = {}
    /\ buffer = FragClose
    /\ brace_depth = 0

\* events is the beginning of later: nothing yielded is taken back or changed
StandIn(later) ==
    /\ Len(events) <= Len(later)
    /\ \A x \in 1..Len(events) : later[x] = events[x]

\* The error event of a Section comes after every text and comment event of
\* that Section, and there is at most one per Section
ErrorClosesSection ==
    \A k \in 1..Len(eligible) :
        /\ Cardinality(EventsWhere("error", k)) <= 1
        /\ \A x \in EventsWhere("error", k) :
              \A y \in EventsWhere("text", k) \cup EventsWhere("comment", k) : y < x

\* C33: when a Section fails in mid-stream the text and comment events it has
\* yielded stand and precede its error event: every step only appends to the
\* events, the step in which a Section fails appends exactly its error
\* event, no text or comment event of a Section follows its error event, and
\* a Section has at most one error event.
C33_PartialOutputStands ==
    /\ []ErrorClosesSection
    /\ [][/\ StandIn(events')
          /\ failed' # failed =>
                /\ failed' = failed \cup {batch_idx}
                /\ events' = Append(events, ErrorEvent(eligible[batch_idx], batch_idx))]_vars

\* The stream of the first Section broke after a text and a comment event:
\* the error event is the last event so far, the loop is at the next Section
C33_Witness ==
    /\ pc = "loop"
    /\ batch_idx = 2
    /\ failed = {1}
    /\ EventsWhere("text", 1) # {}
    /\ EventsWhere("comment", 1) # {}
    /\ events[Len(events)].event = "error"
    /\ \A y \in EventsWhere("text", 1) \cup EventsWhere("comment", 1) : y < Len(events)

\* No Section of the request's document is eligible: the paragraph list is
\* empty, or every Section detected is a cover or a table of contents
NoEligibleSection == EligibleSections(SectionsOf[paragraphs]) = <<>>

\* C34: a request without eligible Sections yields exactly two events, the
\* progress event with current_batch 0 and total_batches 0 and then the done
\* event, and the provider is never called.
C34_NothingToReview ==
    NoEligibleSection =>
        /\ calls = <<>>
        /\ pc # "section"
        /\ ex_pc = "idle"
        /\ pc \in {"start", "cancelled"} =>
              events \in {<<>>, <<ProgressEvent(0, 0)>>}
        /\ pc = "loop" => events = <<ProgressEvent(0, 0)>>
        /\ pc = "finished" => events = <<ProgressEvent(0, 0), DoneEvent(1)>>

\* A document of a cover and a table of contents: the request has finished
\* with its two events
C34_Witness ==
    /\ pc = "finished"
    /\ Len(all_sections) = 2
    /\ all_sections[1].section_type = "cover"
    /\ all_sections[2].section_type = "toc"
    /\ eligible = <<>>
    /\ Len(events) = 2

-----------------------------------------------------------------------------
(* generate_overall_comment_stream (SpecOverallLive) *)

\* The events of the overall comment are well ordered: at most one error and
\* at most one done event; the error event comes after every text event; the
\* done event is the last event and, if there is an error event, comes
\* directly after it
OverallOrdered ==
    /\ Cardinality(EventsOf("error")) <= 1
    /\ Cardinality(EventsOf("done")) <= 1
    /\ \A x \in EventsOf("error") : \A y \in EventsOf("text") : y < x
    /\ \A z \in EventsOf("done") :
          /\ z = Len(events)
          /\ \A x \in EventsOf("error") : z = x + 1

\* C35: generate_overall_comment_stream, when not cancelled, ends with
\* exactly one done event as its last event, also when the provider call or
\* the stream fails; a failure yields exactly one error event, after every
\* text event yielded before and directly before the done event, and no text
\* event follows an error event.
C35_OverallEndsWithDone ==
    /\ [](/\ OverallOrdered
          /\ EventsOf("error") # {} => pc \notin {"overall_requesting", "overall_streaming"}
          /\ pc = "overall_failed" =>
                EventsOf("error") = {Len(events)} /\ EventsOf("done") = {}
          /\ pc = "overall_finished" <=> EventsOf("done") # {})
    /\ [](pc # "overall_cancelled") => <>(pc = "overall_finished")

\* The stream broke after two text events: text, text, error, done
C35_Witness ==
    /\ pc = "overall_finished"
    /\ Len(events) = 4
    /\ events[1].event = "text"
    /\ events[2].event = "text"
    /\ events[3].event = "error"
    /\ events[4].event = "done"

-----------------------------------------------------------------------------
(* The counters of the incremental scan (SpecExtract) *)

\* C36 as stated: the brace depth of the incremental scan is never negative,
\* whatever the stream text.
C36_DepthNeverNegative == brace_depth >= 0

\* The text whose object holds a closing brace in a string has been scanned
\* to its end: the depth has gone below 0 and no comment was yielded by the
\* scan
C36_Witness ==
    /\ ex_pc = "streaming"
    /\ stream_text = TextBraceInString
    /\ buffer = stream_text
    /\ brace_depth = -1
    /\ emitted_count = 0

\* C37: in every state of the incremental scan the start offset of the open
\* object is set (not -1) exactly when the brace depth is greater than 0, and
\* when set it is the place in the buffer of an opening brace.
C37_StartSetIffOpen ==
    /\ current_object_start # -1 <=> brace_depth > 0
    /\ current_object_start # -1 =>
          /\ current_object_start \in 0..(Len(buffer) - 1)
          /\ buffer[current_object_start + 1] = "{"

\* An object that failed to parse has been closed and the next object is
\* open: the offset is that of the second object's opening brace
C37_Witness ==
    /\ ex_pc = "streaming"
    /\ stream_text = TextDropThenKeep
    /\ brace_depth = 1
    /\ current_object_start > 6
    /\ buffer[current_object_start + 1] = "{"
    /\ Cardinality(DropSlices(buffer)) = 1
    /\ emitted_count = 0

====
